---- MODULE Spec2Model ----
(***************************************************************************)
(* Chartura demo: the /api/askura handler variants, the Askura chat front   *)
(* ends (HomePage Rev 17, 18, 19 and Rev 20), the local answerer, the      *)
(* Rev 17 data table with its CSV import, export gate and KPI cards, the   *)
(* chart geometry, the hero carousel and the trial modal.                  *)
(*                                                                         *)
(* A JavaScript string is a sequence of tokens (words, numbers, blanks):   *)
(* trim, the falsy test and equality are computed on that sequence.        *)
(***************************************************************************)
EXTENDS Integers, Sequences, FiniteSets, TLC

VARIABLES
  variant,    \* which /api/askura handler file is deployed
  envKey,     \* process.env.OPENAI_API_KEY of the server process
  invs,       \* handler invocations, in arrival order
  rev,        \* which front end is mounted ("api": none, requests come from outside)
  rows,       \* HomePage rows state
  mounted,    \* FALSE once a render has thrown (React unmounts the tree)
  input,      \* chat input field
  messages,   \* chat transcript
  memory,     \* Rev 17/18 Askura carry-over memory
  useAI,      \* Rev 17 "Use OpenAI" checkbox
  apiKey,     \* Rev 17 API key field
  sends,      \* the send() calls that passed the blank test, in order
  gated,      \* HomePage gated state
  previews,   \* HomePage previews state: the number of slide previews
  exported,   \* what the two export handlers did, in order: "return" (at the gate),
              \* "svgToPng" (a conversion started), or the file name of a download
  awaits,     \* handlers suspended at an await (file reads, chart conversions)
  edits,      \* the number of cell updates, row additions and file imports so far
  cards,      \* the KPI cards as last rendered
  asked,      \* the answerLocal calls made so far, each with its result
  blanks,     \* the send() calls that returned at the blank test, counted
  slide,      \* HeroIntro i state, the carousel slide shown, and the control that set it
  controls,   \* HomePage chart controls: mode, yA, yB, secondaryOn, useRightAxis
  data,       \* the slices PremiumDonutChart is given
  drawn,      \* the figures of the last render
  modal       \* TrialModal: its props, its keydown listeners, the onClose calls

pageVars == <<gated, previews, exported, awaits, edits, cards, asked>>
viewVars == <<blanks, slide, controls, data, drawn, modal>>

vars == <<variant, envKey, invs, rev, rows, mounted, input, messages, memory,
          useAI, apiKey, sends, pageVars, viewVars>>

apiVars == <<variant, envKey, invs>>
uiVars == <<rev, rows, mounted, input, messages, memory, useAI, apiKey, sends>>

-----------------------------------------------------------------------------
(* Bounds *)

MaxReq == 2        \* handler invocations per behaviour
MaxSends == 2      \* send() calls per behaviour
MaxBlank == 1      \* send() calls with a blank input that are counted
MaxRenders == 3    \* renders of TrialModal per behaviour
MaxKeys == 2       \* key presses per behaviour

-----------------------------------------------------------------------------
(* Strings *)

WS == {" "}

\* the value of a missing string (undefined / null)
Undef == <<"<undefined>">>

RECURSIVE TrimStart(_)
TrimStart(s) == IF s # <<>> /\ Head(s) \in WS THEN TrimStart(Tail(s)) ELSE s

RECURSIVE TrimEnd(_)
TrimEnd(s) ==
  IF s # <<>> /\ s[Len(s)] \in WS THEN TrimEnd(SubSeq(s, 1, Len(s) - 1)) ELSE s

\* String.prototype.trim
Trim(s) == TrimEnd(TrimStart(s))

\* JavaScript truthiness of a string-or-undefined value
Truthy(s) == s # Undef /\ s # <<>>

-----------------------------------------------------------------------------
(* Rows *)

\* costPrice is kept in hundredths (0.88 is 88)
Row(p, r, u, s, c, e) ==
  [period |-> p, revenue |-> r, units |-> u, supplier |-> s, costPrice |-> c, staffExp |-> e]

defaultRows ==
  << Row("2020", 300, 240, "Northstar", 88, 40),
     Row("2021", 350, 260, "Northstar", 90, 44),
     Row("2022", 400, 290, "BluePeak", 91, 48),
     Row("2023", 460, 310, "BluePeak", 93, 50),
     Row("2024", 520, 350, "Skyline", 94, 54),
     Row("2025", 590, 380, "Skyline", 96, 58) >>

RECURSIVE SumSeq(_, _)
\* rs.reduce((s, r) => s + f(r), 0) for a field f
SumSeq(rs, f) == IF rs = <<>> THEN 0 ELSE rs[1][f] + SumSeq(Tail(rs), f)

Abs(n) == IF n < 0 THEN -n ELSE n

-----------------------------------------------------------------------------
(* Numbers *)

\* Math.round(n / d): the nearest integer, halves towards +infinity
Round(n, d) ==
  IF d < 0 THEN (2 * (-n) + (-d)) \div (2 * (-d)) ELSE (2 * n + d) \div (2 * d)

\* a quotient n / d kept exact
Frac(n, d) == [n |-> n, d |-> d]

pct(a, b) == IF b = 0 THEN Frac(0, 1) ELSE Frac((a - b) * 100, b)

D2(k) == IF k < 10 THEN "0" \o ToString(k) ELSE ToString(k)

\* (h / 100).toFixed(2) for a value h in hundredths
toFixed2(h) ==
  <<(IF h < 0 THEN "-" ELSE "") \o ToString(Abs(h) \div 100) \o "." \o D2(Abs(h) % 100)>>

MaxDigits == 3     \* digits before the point that a finite number holds (309 for a double)

\* the non-finite values of a JavaScript number, kept apart from the finite
\* ones (a finite number is below 10 ^ MaxDigits, in hundredths)
Infinity == 10 ^ (MaxDigits + 2)
NaN == Infinity + 1

RECURSIVE digitsOf(_, _, _)
\* the decimal digits a string of characters starts with: their value n and
\* their number len
digitsOf(s, n, len) ==
  IF s # <<>> /\ \E d \in 0..9 : ToString(d) = Head(s)
    THEN digitsOf(Tail(s), 10 * n + (CHOOSE d \in 0..9 : ToString(d) = Head(s)), len + 1)
    ELSE [n |-> n, len |-> len]

\* parseFloat(s) for a string of the characters 0-9, '.' and '-', in
\* hundredths (two decimals are kept): the longest prefix [-]digits[.digits]
parseFloat(s) ==
  LET neg == s # <<>> /\ Head(s) = "-"
      body == IF neg THEN Tail(s) ELSE s
      int == digitsOf(body, 0, 0)
      rest == SubSeq(body, int.len + 1, Len(body))
      frac == IF rest # <<>> /\ Head(rest) = "." THEN digitsOf(Tail(rest), 0, 0)
              ELSE [n |-> 0, len |-> 0]
      h == int.n * 100 + (IF frac.len = 0 THEN 0
                          ELSE IF frac.len = 1 THEN frac.n * 10
                          ELSE frac.n \div (10 ^ (frac.len - 2)))
  IN IF int.len = 0 /\ frac.len = 0 THEN NaN
     ELSE IF int.n >= 10 ^ MaxDigits THEN (IF neg THEN -Infinity ELSE Infinity)
     ELSE IF neg THEN -h ELSE h

\* num without the isFinite test
num_unguarded(v) ==
  parseFloat(SelectSeq(v, LAMBDA c : c \in {".", "-"} \/ \E d \in 0..9 : ToString(d) = c))

\* num(v) for a string v (every caller passes one): v.replace(/[^0-9.\-]/g, '')
\* is parsed, and a result that is not finite becomes 0
num(v) ==
  LET n == parseFloat(SelectSeq(v, LAMBDA c : c \in {".", "-"} \/ \E d \in 0..9 : ToString(d) = c))
  IN IF n \in {NaN, Infinity, -Infinity} THEN 0 ELSE n

-----------------------------------------------------------------------------
(* Question text: words are separated by blanks or punctuation, so a regular *)
(* expression's word is found inside one token                               *)

\* String.prototype.toLowerCase, token by token
LowerTok(w) ==
  CASE w = "Revenue" -> "revenue"
    [] w = "When" -> "when"
    [] w = "Which" -> "which"
    [] w = "Northstar" -> "northstar"
    [] w = "BluePeak" -> "bluepeak"
    [] w = "Skyline" -> "skyline"
    [] w = "Unknown" -> "unknown"
    [] w = "Period" -> "period"
    [] w = "CostPrice" -> "costprice"
    [] w = "CSV" -> "csv"
    [] OTHER -> w

toLowerCase(s) == [i \in 1..Len(s) |-> LowerTok(s[i])]

\* the pattern words a token contains besides itself
Atoms(w) ==
  {w} \cup (CASE w = "units" -> {"unit"}
              [] w = "costs" -> {"cost"}
              [] w = "minimum" -> {"min"}
              [] w = "maximum" -> {"max"}
              [] OTHER -> {})

Idx(t, A) == {i \in 1..Len(t) : Atoms(t[i]) \cap A # {}}

\* /a|b|.../.test(t)
Has(t, A) == Idx(t, A) # {}

\* /(a|..).*(b|..)/.test(t)
Before(t, A, B) == \E i \in Idx(t, A), j \in Idx(t, B) : i < j

RECURSIVE PhraseAt(_, _, _, _)
\* the words ws from token i on, at least minGap blanks between two of them
PhraseAt(t, i, ws, minGap) ==
  /\ i <= Len(t)
  /\ Head(ws) \in Atoms(t[i])
  /\ \/ Len(ws) = 1
     \/ \E j \in (i + 1 + minGap)..Len(t) :
          /\ \A k \in (i + 1)..(j - 1) : t[k] \in WS
          /\ PhraseAt(t, j, Tail(ws), minGap)

\* /w1\s+w2\s+.../.test(t)
Phrase(t, ws) == \E i \in 1..Len(t) : PhraseAt(t, i, ws, 1)

\* /20\d{2}/
YearTokens == {"2020", "2021", "2022", "2023", "2024", "2025", "2026", "2027"}

RECURSIVE Dedup(_, _)
\* Array.from(new Set(xs)): first occurrences, in order
Dedup(xs, seen) ==
  IF xs = <<>> THEN <<>>
  ELSE IF Head(xs) \in seen THEN Dedup(Tail(xs), seen)
  ELSE <<Head(xs)>> \o Dedup(Tail(xs), seen \cup {Head(xs)})

RECURSIVE SelectTok(_, _)
SelectTok(t, S) ==
  IF t = <<>> THEN <<>>
  ELSE (IF Head(t) \in S THEN <<Head(t)>> ELSE <<>>) \o SelectTok(Tail(t), S)

\* text.includes(s) for a supplier name s ('' is included in every text)
Includes(t, s) == s = "" \/ \E i \in 1..Len(t) : t[i] = s

RECURSIVE JoinComma(_)
\* xs.join(', ')
JoinComma(xs) ==
  IF xs = <<>> THEN <<>>
  ELSE IF Len(xs) = 1 THEN xs
  ELSE <<Head(xs), ", ">> \o JoinComma(Tail(xs))

-----------------------------------------------------------------------------
(* HomePage Rev 17: answerLocal *)

undefined == "<undefined>"

METRIC_LABEL(m) ==
  CASE m = "revenue" -> "Sales (Revenue)"
    [] m = "units" -> "Sales Units"
    [] m = "costPrice" -> "Cost Price"
    [] m = "staffExp" -> "Staff Expenses"

\* AskuraMemory: a field that is not set holds undefined
NoValue == Frac(0, 0)
EmptyMemory ==
  [kind |-> undefined, metric |-> undefined, year |-> undefined, years |-> Undef,
   supplier |-> undefined, value |-> NoValue]

\* the context HomePage passes with its initial chart controls
DefaultContext == [mode |-> "line", yA |-> "units", yB |-> undefined, secondaryOn |-> FALSE]

RECURSIVE SumInts(_)
SumInts(xs) == IF xs = <<>> THEN 0 ELSE Head(xs) + SumInts(Tail(xs))

\* r.revenue - r.costPrice*r.units - r.staffExp, in hundredths
Margin100(r) == r.revenue * 100 - r.costPrice * r.units - r.staffExp * 100

Margins100(rs) == SumInts([i \in 1..Len(rs) |-> Margin100(rs[i])])

\* /revenue|sales(?!\s*units)/
RevenueOrSales(t) ==
  \/ Has(t, {"revenue"})
  \/ \E i \in Idx(t, {"sales"}) :
       LET rest == {j \in (i + 1)..Len(t) : t[j] \notin WS}
       IN rest = {} \/ "units" \notin Atoms(t[CHOOSE j \in rest : \A k \in rest : j <= k])

metricOf(t) ==
  IF Has(t, {"margin"}) THEN "margin"
  ELSE IF Has(t, {"unit"}) THEN "units"
  ELSE IF RevenueOrSales(t) THEN "revenue"
  ELSE IF Has(t, {"staff"}) THEN "staffExp"
  ELSE IF Has(t, {"cost"}) THEN "costPrice"
  ELSE "revenue"

\* a metric's sum over rs, as a quotient
metricSum(rs, metric) ==
  IF metric = "margin" THEN Frac(Margins100(rs), 100)
  ELSE IF metric = "costPrice" THEN Frac(SumSeq(rs, "costPrice"), 100)
  ELSE Frac(SumSeq(rs, metric), 1)

\* /^(thanks|thank you|cheers|ok|okay|cool|great|nice|awesome|got it|good)\b/
SmallTalk(t) ==
  \/ t[1] \in {"thanks", "cheers", "ok", "okay", "cool", "great", "nice", "awesome", "good"}
  \/ Len(t) >= 3 /\ SubSeq(t, 1, 3) \in {<<"thank", " ", "you">>, <<"got", " ", "it">>}

\* /^(when\??|when was this\??|which year\??|what year\??)$/
FollowUp(t) ==
  LET core == IF t[Len(t)] = "?" THEN SubSeq(t, 1, Len(t) - 1) ELSE t
  IN core \in { <<"when">>, <<"when", " ", "was", " ", "this">>,
                <<"which", " ", "year">>, <<"what", " ", "year">> }

Answer(text, mem) == [threw |-> FALSE, text |-> text, mem |-> mem]
\* an uncaught TypeError: nothing is returned
Throws == [threw |-> TRUE, text |-> <<>>, mem |-> EmptyMemory]

\* suppliers.find(s => text.includes(s))
mentionedSupplier(text, suppliers) ==
  LET found == {i \in 1..Len(suppliers) : Includes(text, suppliers[i])}
  IN IF found = {} THEN undefined
     ELSE suppliers[CHOOSE i \in found : \A k \in found : i <= k]

\* a filter that keeps the rows of the first year named only
byFilter_firstYear(rs, yearsInQ, supplier) ==
  SelectSeq(rs, LAMBDA r :
    /\ (yearsInQ # <<>> => yearsInQ[1] = r.period)
    /\ (supplier \notin {undefined, ""} => LowerTok(r.supplier) = supplier))

\* rows.filter(...): the rows of the years and of the supplier the question names
byFilter(rs, yearsInQ, supplier) ==
  SelectSeq(rs, LAMBDA r :
    /\ (yearsInQ # <<>> => \E k \in 1..Len(yearsInQ) : yearsInQ[k] = r.period)
    /\ (supplier \notin {undefined, ""} => LowerTok(r.supplier) = supplier))

\* the first key of keys (insertion order) whose value is largest: sort(b - a)[0]
firstMax(keys, val) ==
  keys[CHOOSE i \in 1..Len(keys) :
         /\ \A k \in 1..Len(keys) : val[keys[k]] <= val[keys[i]]
         /\ \A k \in 1..(i - 1) : val[keys[k]] < val[keys[i]]]

\* rows.forEach: the first row whose costPrice no other row betters
bestCost(rs, lowest) ==
  rs[CHOOSE i \in 1..Len(rs) :
       /\ \A k \in 1..Len(rs) : IF lowest THEN rs[i].costPrice <= rs[k].costPrice
                                ELSE rs[i].costPrice >= rs[k].costPrice
       /\ \A k \in 1..(i - 1) : rs[k].costPrice # rs[i].costPrice]

\* the top supplier branch, bySup filled from the filtered rows
topSupplier(names, val, metric, inYears, yearsInQ) ==
  LET name == firstMax(names, val)
      label == IF metric = "rev" THEN "revenue" ELSE metric
      shown == IF metric = "margin" THEN Round(val[name], 100) ELSE val[name]
  IN Answer(<<"Top supplier by ", label>> \o inYears
            \o <<": ", name, " (", ToString(shown), ").">>,
            [kind |-> "topSupplier", metric |-> label,
             year |-> (IF yearsInQ # <<>> THEN yearsInQ[1] ELSE undefined),
             years |-> yearsInQ, supplier |-> name, value |-> NoValue])

bySupValues(names, rows_, metric) ==
  [s \in {names[i] : i \in 1..Len(names)} |->
     IF metric = "margin" THEN Margins100(SelectSeq(rows_, LAMBDA r : r.supplier = s))
     ELSE IF metric = "units" THEN SumSeq(SelectSeq(rows_, LAMBDA r : r.supplier = s), "units")
     ELSE SumSeq(SelectSeq(rows_, LAMBDA r : r.supplier = s), "revenue")]

\* the highest margin branch, byYear filled from all rows
marginMax(years, val) ==
  LET year == firstMax(years, val)
  IN Answer(<<"Highest margin year: ", year, " (~", ToString(Round(val[year], 100)), ").">>,
            [kind |-> "marginMax", metric |-> "margin", year |-> year, years |-> Undef,
             supplier |-> undefined, value |-> Frac(val[year], 100)])

byYearValues(years, rs) ==
  [y \in {years[i] : i \in 1..Len(years)} |-> Margins100(SelectSeq(rs, LAMBDA r : r.period = y))]

costAnswer(best, lowest) ==
  Answer(<<(IF lowest THEN "Lowest cost price: " ELSE "Highest cost price: ")>>
         \o toFixed2(best.costPrice) \o <<" in ", best.period, ".">>,
         [kind |-> (IF lowest THEN "min" ELSE "max"), metric |-> "costPrice",
          year |-> best.period, years |-> Undef, supplier |-> undefined,
          value |-> Frac(best.costPrice, 100)])

\* the growth branch for the first and the last year of the question
growth(y1, y2, metric, v1, v2, p) ==
  Answer(<<(IF metric = "margin" THEN "Margin" ELSE METRIC_LABEL(metric)),
           " changed ", ToString(Round(p.n, p.d)), "% from ", y1,
           " (", ToString(Round(v1.n, v1.d)), ") to ", y2,
           " (", ToString(Round(v2.n, v2.d)), ").">>,
         [kind |-> "growth", metric |-> metric, year |-> y2, years |-> <<y1, y2>>,
          supplier |-> undefined, value |-> v2])

\* the change taken relative to the later year
growthOf_ofLater(y1, y2, metric, v1, v2) == growth(y1, y2, metric, v1, v2, pct(v1.n, v2.n))

growthOf(y1, y2, metric, v1, v2) == growth(y1, y2, metric, v1, v2, pct(v2.n, v1.n))

growthBetween(y1, y2, metric, rs) ==
  growthOf(y1, y2, metric,
           metricSum(SelectSeq(rs, LAMBDA r : r.period = y1), metric),
           metricSum(SelectSeq(rs, LAMBDA r : r.period = y2), metric))

\* the average branch: only margin and cost price are divided by the row count
average(metric, val, forSup, inYears) ==
  Answer(<<"Average ", (IF metric = "margin" THEN "margin" ELSE METRIC_LABEL(metric))>>
         \o forSup \o inYears \o <<": ">>
         \o (IF metric = "costPrice" THEN toFixed2(Round(val.n * 100, val.d))
             ELSE <<ToString(Round(val.n, val.d))>>)
         \o <<".">>,
         [kind |-> "total", metric |-> metric, year |-> undefined, years |-> Undef,
          supplier |-> undefined, value |-> val])

averageOf(metric, rows_, n1, forSup, inYears) ==
  average(metric,
          IF metric = "margin" THEN Frac(Margins100(rows_), 100 * n1)
          ELSE IF metric = "costPrice" THEN Frac(SumSeq(rows_, "costPrice"), 100 * n1)
          ELSE Frac(SumSeq(rows_, metric), 1),
          forSup, inYears)

total(label, shown, tail, kind, metric, value, forSup, inYears, mem) ==
  Answer(<<label>> \o forSup \o inYears \o <<": ", shown, tail>>,
         [mem EXCEPT !.kind = kind, !.metric = metric, !.value = value])

\* the branches of answerLocal, in the order of the code
answerFor(text, yearsInQ, rows_, forSup, inYears, yearIdx, rs, context, mem) ==
  IF text = <<>> THEN
    Answer(<<"Ask about revenue, units, suppliers, costs, margin, growth, or years (e.g., \"revenue growth 2024 to 2025\").">>, mem)
  ELSE IF SmallTalk(text) THEN
    Answer(IF mem.kind # undefined
             THEN <<"Anytime - want me to break that down further or compare years?">>
             ELSE <<"Anytime - ask me anything about the table.">>, mem)
  ELSE IF FollowUp(text) THEN
    (IF mem.year \notin {undefined, ""}
       THEN Answer(<<"It was in ", mem.year, ".">>, mem)
       ELSE Answer(<<"I need a reference. Ask a specific question first (e.g., lowest cost price).">>, mem))
  ELSE IF \/ Phrase(text, <<"what", "am", "i", "looking">>)
          \/ Phrase(text, <<"what", "does", "this", "chart">>)
          \/ Phrase(text, <<"which", "metrics", "are", "shown">>) THEN
    Answer(<<"The chart is a ", context.mode, " showing ", METRIC_LABEL(context.yA)>>
           \o (IF context.secondaryOn /\ context.yB # undefined
                 THEN <<" and ", METRIC_LABEL(context.yB)>> ELSE <<>>)
           \o <<" by Year.">>, mem)
  ELSE IF \/ Phrase(text, <<"which", "supplier">>) \/ Phrase(text, <<"top", "supplier">>)
          \/ Phrase(text, <<"most", "units">>) \/ Phrase(text, <<"most", "revenue">>) THEN
    (IF rows_ = <<>> THEN Answer(<<"No rows match that filter.">>, mem)
     ELSE \* the first branch of the ternary tests /margin/, the second /unit/
       IF Has(text, {"margin"})
         THEN topSupplier(Dedup([i \in 1..Len(rows_) |-> rows_[i].supplier], {}),
                          bySupValues(Dedup([i \in 1..Len(rows_) |-> rows_[i].supplier], {}), rows_, "margin"),
                          "margin", inYears, yearsInQ)
       ELSE IF Has(text, {"unit"})
         THEN topSupplier(Dedup([i \in 1..Len(rows_) |-> rows_[i].supplier], {}),
                          bySupValues(Dedup([i \in 1..Len(rows_) |-> rows_[i].supplier], {}), rows_, "units"),
                          "units", inYears, yearsInQ)
       ELSE topSupplier(Dedup([i \in 1..Len(rows_) |-> rows_[i].supplier], {}),
                        bySupValues(Dedup([i \in 1..Len(rows_) |-> rows_[i].supplier], {}), rows_, "rev"),
                        "rev", inYears, yearsInQ))
  ELSE IF Phrase(text, <<"biggest", "margin">>) \/ Phrase(text, <<"highest", "margin">>) THEN
    (IF rs = <<>> THEN Throws      \* const [year, val] = sorted[0] with sorted empty
     ELSE marginMax(Dedup([i \in 1..Len(rs) |-> rs[i].period], {}),
                    byYearValues(Dedup([i \in 1..Len(rs) |-> rs[i].period], {}), rs)))
  ELSE IF \/ Before(text, {"lowest", "min"}, {"cost"})
          \/ \E i \in 1..Len(text) : PhraseAt(text, i, <<"cost", "price">>, 0)
                                     /\ \E j \in Idx(text, {"lowest", "min"}) : j > i THEN
    (IF rs = <<>> THEN Answer(<<"No data.">>, mem) ELSE costAnswer(bestCost(rs, TRUE), TRUE))
  ELSE IF \/ Before(text, {"highest", "max"}, {"cost"})
          \/ \E i \in 1..Len(text) : PhraseAt(text, i, <<"cost", "price">>, 0)
                                     /\ \E j \in Idx(text, {"highest", "max"}) : j > i THEN
    (IF rs = <<>> THEN Answer(<<"No data.">>, mem) ELSE costAnswer(bestCost(rs, FALSE), FALSE))
  ELSE IF /\ Has(text, {"growth", "change", "delta", "increase", "decrease"})
          /\ Cardinality(yearIdx) >= 2 THEN
    growthBetween(text[CHOOSE i \in yearIdx : \A k \in yearIdx : i <= k],
                  text[CHOOSE i \in yearIdx : \A k \in yearIdx : i >= k],
                  metricOf(text), rs)
  ELSE IF Has(text, {"average", "avg"}) THEN
    averageOf(metricOf(text), rows_, IF Len(rows_) = 0 THEN 1 ELSE Len(rows_), forSup, inYears)
  ELSE IF RevenueOrSales(text) THEN
    total("Revenue", ToString(SumSeq(rows_, "revenue")), ".", "total", "revenue",
          Frac(SumSeq(rows_, "revenue"), 1), forSup, inYears, mem)
  ELSE IF Has(text, {"unit", "quantity", "qty"}) THEN
    total("Units", ToString(SumSeq(rows_, "units")), ".", "total", "units",
          Frac(SumSeq(rows_, "units"), 1), forSup, inYears, mem)
  ELSE IF Has(text, {"staff"}) THEN
    total("Staff expenses", ToString(SumSeq(rows_, "staffExp")), ".", "total", "staffExp",
          Frac(SumSeq(rows_, "staffExp"), 1), forSup, inYears, mem)
  ELSE IF Has(text, {"margin", "profit"}) THEN
    total("Margin", ToString(Round(Margins100(rows_), 100)), " (approx).", "marginMax", "margin",
          Frac(Margins100(rows_), 100), forSup, inYears, mem)
  ELSE IF Has(text, {"cost"}) THEN
    Answer(<<"Average cost price">> \o forSup \o inYears \o <<": ">>
           \o toFixed2(Round(SumSeq(rows_, "costPrice"), IF Len(rows_) = 0 THEN 1 ELSE Len(rows_)))
           \o <<".">>,
           [mem EXCEPT !.kind = "total", !.metric = "costPrice"])
  ELSE
    Answer(<<"Try: \"Top supplier by revenue\", \"Revenue growth 2024 to 2025\", or \"What does this chart show?\"">>, mem)

answerFiltered(text, yearsInQ, supplier, rs, context, mem) ==
  answerFor(text, yearsInQ, byFilter(rs, yearsInQ, supplier),
            IF supplier \notin {undefined, ""} THEN <<" for ", supplier>> ELSE <<>>,
            IF yearsInQ # <<>> THEN <<" in ">> \o JoinComma(yearsInQ) ELSE <<>>,
            Idx(text, YearTokens), rs, context, mem)

answerText(text, rs, context, mem) ==
  answerFiltered(text, Dedup(SelectTok(text, YearTokens), {}),
                 mentionedSupplier(text, Dedup([i \in 1..Len(rs) |-> LowerTok(rs[i].supplier)], {})),
                 rs, context, mem)

answerLocal(q, rs, context, mem) == answerText(toLowerCase(Trim(q)), rs, context, mem)

\* HomePage Rev 18: answerLocal(question, rows, mem), four patterns tested on the
\* untrimmed text; a margin sum is printed with two decimals
answerLocal18(question, rs, mem) ==
  LET text == toLowerCase(question)
      suppliers == Dedup([i \in 1..Len(rs) |-> rs[i].supplier], {})
      metric == IF Has(text, {"margin"}) THEN "margin"
                ELSE IF Has(text, {"unit"}) THEN "units" ELSE "rev"
      val == bySupValues(suppliers, rs, metric)
  IN IF \/ Before(text, {"lowest", "min"}, {"cost"})
        \/ \E i \in 1..Len(text) : PhraseAt(text, i, <<"cost", "price">>, 0)
                                   /\ \E j \in Idx(text, {"lowest", "min"}) : j > i THEN
       (IF rs = <<>> THEN Answer(<<"No data.">>, mem) ELSE costAnswer(bestCost(rs, TRUE), TRUE))
     ELSE IF \/ Before(text, {"highest", "max"}, {"cost"})
             \/ \E i \in 1..Len(text) : PhraseAt(text, i, <<"cost", "price">>, 0)
                                        /\ \E j \in Idx(text, {"highest", "max"}) : j > i THEN
       (IF rs = <<>> THEN Answer(<<"No data.">>, mem) ELSE costAnswer(bestCost(rs, FALSE), FALSE))
     ELSE IF Phrase(text, <<"biggest", "margin">>) \/ Phrase(text, <<"highest", "margin">>) THEN
       (IF rs = <<>> THEN Answer(<<"No data.">>, mem)
        ELSE marginMax(Dedup([i \in 1..Len(rs) |-> rs[i].period], {}),
                       byYearValues(Dedup([i \in 1..Len(rs) |-> rs[i].period], {}), rs)))
     ELSE IF \/ Phrase(text, <<"which", "supplier">>) \/ Phrase(text, <<"top", "supplier">>)
             \/ Phrase(text, <<"most", "units">>) \/ Phrase(text, <<"most", "revenue">>) THEN
       (IF rs = <<>> THEN Answer(<<"No rows match that filter.">>, mem)
        ELSE Answer(<<"Top supplier by ", metric, ": ", firstMax(suppliers, val), " (">>
                    \o (IF metric = "margin" THEN toFixed2(val[firstMax(suppliers, val)])
                        ELSE <<ToString(val[firstMax(suppliers, val)])>>)
                    \o <<").">>, mem))
     ELSE Answer(<<"Askura (demo) cannot answer that question yet.">>, mem)

-----------------------------------------------------------------------------
(* HTTP requests, responses and upstream outcomes *)

Variants == {"api", "pages", "part_000", "part_005", "part_006"}

\* req.body.rows: missing, present but no array, or an array of rows
RowsUndef == [kind |-> "undefined", val |-> <<>>]
RowsNotArray == [kind |-> "notarray", val |-> <<>>]
RowsArray(rs) == [kind |-> "array", val |-> rs]

Body(q, r, c) == [present |-> TRUE, question |-> q, rows |-> r, context |-> c]
NoBody == [present |-> FALSE, question |-> Undef, rows |-> RowsUndef, context |-> FALSE]

TwoRows == << defaultRows[5], defaultRows[6] >>

Bodies ==
  { NoBody,
    Body(Undef, RowsUndef, FALSE),
    Body(<<>>, RowsArray(TwoRows), TRUE),
    Body(<<"revenue">>, RowsNotArray, TRUE),
    Body(<<"revenue">>, RowsArray(TwoRows), FALSE),
    Body(<<"revenue">>, RowsArray(<<>>), TRUE),
    Body(<<"revenue">>, RowsArray(TwoRows), TRUE) }

Methods == {"GET", "POST"}

EnvKeys == {Undef, <<"sk-test">>}

\* what the chat-completion API call comes back with
Threw(msg) == [kind |-> "throw", status |-> 0, text |-> msg, json |-> FALSE, content |-> Undef]
HttpError(st, txt) == [kind |-> "http", status |-> st, text |-> txt, json |-> FALSE, content |-> Undef]
HttpOkRaw(txt) == [kind |-> "http", status |-> 200, text |-> txt, json |-> FALSE, content |-> Undef]
HttpOkJson(c) == [kind |-> "http", status |-> 200, text |-> <<"{json}">>, json |-> TRUE, content |-> c]

Ok(u) == u.kind = "http" /\ u.status >= 200 /\ u.status <= 299

Outcomes ==
  { Threw(<<"fetch failed">>),
    HttpError(429, <<"rate limited">>),
    HttpOkRaw(<<"<html>">>),
    HttpOkJson(Undef),
    HttpOkJson(<<" ">>),
    HttpOkJson(<<"590">>),
    HttpOkJson(<<" ", "590", " ">>) }

JsonAnswer(st, a) == [status |-> st, type |-> "json", field |-> "answer", text |-> a]
JsonError(st, e) == [status |-> st, type |-> "json", field |-> "error", text |-> e]
PlainText(st, t) == [status |-> st, type |-> "text", field |-> "none", text |-> t]

\* the handler has sent `sent` and returned (done) or is suspended at its await
Done(sent) == [pc |-> "done", sent |-> sent, fetches |-> 0]
Await(sent) == [pc |-> "await", sent |-> sent, fetches |-> 1]

\* e.message of the TypeError thrown by destructuring an undefined body
DestructureError == <<"Cannot destructure property 'question' of 'req.body' as it is undefined.">>

-----------------------------------------------------------------------------
(* src/api/askura.ts: the OpenAI SDK variant *)

handler_api_enter(req, key) ==
  IF req.method # "POST" THEN Done(<<PlainText(405, <<"Method Not Allowed">>)>>)
  ELSE IF ~Truthy(req.body.question) \/ req.body.rows.kind # "array"
    THEN Done(<<JsonError(400, <<"Missing question or rows">>)>>)
  ELSE IF ~Truthy(key)
    THEN Done(<<JsonError(500, <<"Server missing OPENAI_API_KEY">>)>>)
  ELSE Await(<<>>)

\* a handler that calls the chat-completion API again after a failed call
handler_api_resume_retries(req, key, u) ==
  IF u.kind = "throw" \/ ~Ok(u) THEN Await(<<>>)
  ELSE IF ~u.json THEN Done(<<JsonError(500, <<"Askura backend error">>)>>)
  ELSE Done(<<JsonAnswer(200, IF u.content = Undef THEN <<"No answer.">> ELSE u.content)>>)

\* the SDK call rejects on a network error, a non-OK status and an unparsable body
handler_api_resume(req, key, u) ==
  IF u.kind = "throw" \/ ~Ok(u) \/ ~u.json
    THEN Done(<<JsonError(500, <<"Askura backend error">>)>>)
  ELSE Done(<<JsonAnswer(200, IF u.content = Undef THEN <<"No answer.">> ELSE u.content)>>)

-----------------------------------------------------------------------------
(* src/pages/api/askura.ts: local summary when no key is set *)

localSummary(rs) ==
  LET isArr == rs.kind = "array"
      totalRevenue == IF isArr THEN SumSeq(rs.val, "revenue") ELSE 0
      has == isArr /\ Len(rs.val) > 0
      trend == IF has THEN rs.val[Len(rs.val)].revenue - rs.val[1].revenue ELSE 0
  IN << "Askura (local): total revenue ~ ", ToString(totalRevenue),
        ". Trend from ", (IF has THEN rs.val[1].period ELSE "start"),
        " to ", (IF has THEN rs.val[Len(rs.val)].period ELSE "end"),
        " is ", (IF trend >= 0 THEN "up" ELSE "down"),
        " by ", ToString(Abs(trend)), ". (Add OPENAI_API_KEY to enable AI.)" >>

handler_pages_enter(req, key) ==
  IF req.method # "POST" THEN Done(<<JsonError(405, <<"Method Not Allowed">>)>>)
  ELSE IF ~req.body.present THEN Done(<<JsonError(500, DestructureError)>>)
  ELSE IF ~Truthy(key) THEN Done(<<JsonAnswer(200, localSummary(req.body.rows))>>)
  ELSE Await(<<>>)

handler_pages_resume(req, key, u) ==
  IF u.kind = "throw" THEN Done(<<JsonError(500, u.text)>>)
  ELSE IF ~Ok(u) THEN Done(<<JsonError(500, <<"OpenAI error: ">> \o u.text)>>)
  ELSE IF ~u.json THEN Done(<<JsonError(500, <<"Unexpected token < in JSON at position 0">>)>>)
  ELSE Done(<<JsonAnswer(200, IF u.content = Undef THEN <<"No answer.">> ELSE Trim(u.content))>>)

-----------------------------------------------------------------------------
(* src/unnamed/part_000, part_005, part_006: the validating fetch variants *)

BadRequest == <<"Bad Request: missing \"question\", \"rows\", or \"context\".">>

validated_enter(req, key) ==
  IF ~Truthy(req.body.question) \/ req.body.rows.kind # "array" \/ ~req.body.context
    THEN Done(<<JsonError(400, BadRequest)>>)
  ELSE IF ~Truthy(key)
    THEN Done(<<JsonError(401, <<"OPENAI_API_KEY is not set on the server.">>)>>)
  ELSE Await(<<>>)

MethodNotAllowed == <<JsonError(405, <<"Method Not Allowed. Use POST.">>)>>

OpenAIError(u) == <<"OpenAI error (", ToString(u.status), "): ">> \o u.text

\* the answer, or 502 when content?.trim() is falsy
answerOr502(u) ==
  LET answer == IF u.content = Undef THEN Undef ELSE Trim(u.content)
  IN IF ~Truthy(answer) THEN Done(<<JsonError(502, <<"No answer from OpenAI.">>)>>)
     ELSE Done(<<JsonAnswer(200, answer)>>)

handler_part000_enter(req, key) ==
  IF req.method # "POST" THEN Done(MethodNotAllowed)
  ELSE validated_enter(req, key)     \* req.body || {}

\* a handler that passes the upstream failure text on as a 200 answer
handler_part000_resume_relaysFailure(req, key, u) ==
  IF u.kind = "throw" THEN Done(<<JsonAnswer(200, u.text)>>)
  ELSE IF ~Ok(u) THEN Done(<<JsonAnswer(200, u.text)>>)
  ELSE IF ~u.json THEN Done(<<JsonError(502, <<"Invalid JSON from OpenAI.">>)>>)
  ELSE answerOr502(u)

handler_part000_resume(req, key, u) ==
  IF u.kind = "throw" THEN Done(<<JsonError(500, IF Truthy(u.text) THEN u.text ELSE <<"Unknown server error">>)>>)
  ELSE IF ~Ok(u) THEN Done(<<JsonError(502, OpenAIError(u))>>)
  ELSE IF ~u.json THEN Done(<<JsonError(502, <<"Invalid JSON from OpenAI.">>)>>)
  ELSE answerOr502(u)

handler_part005_enter(req, key) ==
  IF req.method # "POST" THEN Done(MethodNotAllowed)
  ELSE IF ~req.body.present THEN Done(<<JsonError(500, DestructureError)>>)
  ELSE validated_enter(req, key)

handler_part005_resume(req, key, u) ==
  IF u.kind = "throw" THEN Done(<<JsonError(500, IF Truthy(u.text) THEN u.text ELSE <<"Unknown server error">>)>>)
  ELSE IF ~Ok(u) THEN Done(<<JsonError(502, OpenAIError(u))>>)
  ELSE IF ~u.json THEN Done(<<JsonError(502, <<"Invalid JSON from OpenAI.">>)>>)
  ELSE answerOr502(u)

handler_part006_enter(req, key) ==
  IF req.method # "POST" THEN Done(MethodNotAllowed)
  ELSE IF ~req.body.present THEN Done(<<JsonError(500, DestructureError)>>)
  ELSE validated_enter(req, key)

\* r.json() rejects on an unparsable body: the catch answers 500
handler_part006_resume(req, key, u) ==
  IF u.kind = "throw" THEN Done(<<JsonError(500, IF Truthy(u.text) THEN u.text ELSE <<"Unknown server error">>)>>)
  ELSE IF ~Ok(u) THEN Done(<<JsonError(502, OpenAIError(u))>>)
  ELSE IF ~u.json THEN Done(<<JsonError(500, <<"Unexpected token < in JSON at position 0">>)>>)
  ELSE answerOr502(u)

-----------------------------------------------------------------------------
(* The deployed handler *)

handler_enter(v, req, key) ==
  CASE v = "api" -> handler_api_enter(req, key)
    [] v = "pages" -> handler_pages_enter(req, key)
    [] v = "part_000" -> handler_part000_enter(req, key)
    [] v = "part_005" -> handler_part005_enter(req, key)
    [] v = "part_006" -> handler_part006_enter(req, key)

handler_resume(v, req, key, u) ==
  CASE v = "api" -> handler_api_resume(req, key, u)
    [] v = "pages" -> handler_pages_resume(req, key, u)
    [] v = "part_000" -> handler_part000_resume(req, key, u)
    [] v = "part_005" -> handler_part005_resume(req, key, u)
    [] v = "part_006" -> handler_part006_resume(req, key, u)

NoOutcome == [kind |-> "none", status |-> 0, text |-> <<>>, json |-> FALSE, content |-> Undef]

\* a handler behind a module-level request counter: later requests are turned away
Invocation_counted(req, from) ==
  LET e == IF Len(invs) >= 1
             THEN Done(<<JsonError(429, <<"Too many requests">>)>>)
             ELSE handler_enter(variant, req, envKey)
  IN [req |-> req, key |-> envKey, from |-> from, pc |-> e.pc, sent |-> e.sent,
      fetches |-> e.fetches, up |-> NoOutcome, delivered |-> FALSE]

\* a new invocation: the handler runs to its first response or to its await
Invocation(req, from) ==
  LET e == handler_enter(variant, req, envKey)
  IN [req |-> req, key |-> envKey, from |-> from, pc |-> e.pc, sent |-> e.sent,
      fetches |-> e.fetches, up |-> NoOutcome, delivered |-> FALSE]

\* a request from outside the front end: any method, any body
Request(m, b) ==
  /\ rev = "api"
  /\ Len(invs) < MaxReq
  /\ invs' = Append(invs, Invocation([method |-> m, body |-> b], 0))
  /\ UNCHANGED <<variant, envKey, uiVars, pageVars, viewVars>>

\* the chat-completion call of invocation i settles and the handler runs on
UpstreamSettles(i, u) ==
  /\ invs[i].pc = "await"
  /\ invs' = [invs EXCEPT ![i] =
       LET r == handler_resume(variant, invs[i].req, invs[i].key, u)
       IN [@ EXCEPT !.pc = r.pc, !.up = u, !.sent = @ \o r.sent,
                    !.fetches = @ + r.fetches]]
  /\ UNCHANGED <<variant, envKey, uiVars, pageVars, viewVars>>

-----------------------------------------------------------------------------
(* Chat front ends *)

Msg(role, text) == [role |-> role, text |-> text]

\* what the user can type into the chat input; Rev 19 and Rev 20 have no
\* local answerer, so one blank and two other inputs cover their send()
Questions(r) ==
  IF r \in {"rev17", "rev18"}
    THEN { <<" ">>, <<"highest", " ", "margin", " ">>, <<"when", "?">> }
    ELSE { <<" ">>, <<"Revenue", " ", "2025", " ">>, <<"when", "?">> }

\* what the front ends' network calls come back with
UIOutcomes ==
  { Threw(<<"fetch failed">>),
    HttpError(429, <<"rate limited">>),
    HttpOkJson(<<" ">>),
    HttpOkJson(<<" ", "590", " ">>) }

ApiKeys == {<<>>, <<"sk-user">>}

SeedQuestion ==
  <<"Which", " ", "supplier", " ", "drove", " ", "most", " ", "units", " ", "in", " ", "2025", "?">>

Unavailable17 ==
  <<"AI backend is unavailable in this demo environment. Using built-in logic instead.">>
Unavailable == <<"Askura server unavailable.">>
LocalFallback == <<"Local fallback: feature unavailable in sandbox.">>

\* useState initial value of messages
initialMessages(r, rs) ==
  CASE r = "rev17" ->
         << Msg("user", SeedQuestion),
            Msg("ai", answerLocal(SeedQuestion, rs, DefaultContext, EmptyMemory).text) >>
    [] r = "rev18" -> <<>>           \* Rev 18: the log of question and answer pairs
    [] r = "rev19" -> <<>>
    [] r = "rev20" ->
         << Msg("ai", <<"Hi! Ask me anything about the sample data below (e.g., \"What's the revenue trend?\").">>) >>
    [] OTHER -> <<>>

\* one send(): the question, the values its closure holds, where its messages are
\* (rows and memory are kept while the send is suspended at its await)
SendRec(q, path, pc, fetches, at, reply) ==
  [q |-> q, path |-> path, pc |-> pc,
   rows |-> (IF pc = "fetching" THEN rows ELSE <<>>),
   memory |-> (IF pc = "fetching" THEN memory ELSE EmptyMemory),
   fetches |-> fetches, inv |-> 0, failed |-> FALSE, at |-> at, reply |-> reply]

\* a send() that has run to its end: its closure is gone
Finished(s, reply, failed) ==
  [s EXCEPT !.pc = "done", !.rows = <<>>, !.memory = EmptyMemory,
            !.reply = reply, !.failed = failed]

\* onChange of the chat input
SetInput(q) ==
  /\ rev # "api" /\ mounted
  /\ input # q
  /\ input' = q
  /\ UNCHANGED <<apiVars, rev, rows, mounted, messages, memory, useAI, apiKey, sends, pageVars, viewVars>>

\* Rev 17: the "Use OpenAI" checkbox
ToggleAI ==
  /\ rev = "rev17" /\ mounted
  /\ useAI' = ~useAI
  /\ UNCHANGED <<apiVars, rev, rows, mounted, input, messages, memory, apiKey, sends, pageVars, viewVars>>

\* Rev 17: the key field, rendered while useAI is set
SetApiKey(k) ==
  /\ rev = "rev17" /\ mounted /\ useAI
  /\ apiKey # k
  /\ apiKey' = k
  /\ UNCHANGED <<apiVars, rev, rows, mounted, input, messages, memory, useAI, sends, pageVars, viewVars>>

\* DataGrid.remove(i); with no row left computeInsights throws while rendering
\* InsightsSection (latest is undefined) and React unmounts the page
RemoveIdx == {Len(rows)}

remove(rs, i) == SubSeq(rs, 1, i - 1) \o SubSeq(rs, i + 1, Len(rs))

computeInsightsThrows(rs) == rs = <<>>

\* useEffect(() => refreshPreviews(), [rows, ...]) after a render that did not
\* throw; the conversions pending at one time all set the same previews, so
\* one of them is kept
refreshPreviews(aw, isMounted) ==
  IF ~isMounted \/ \E k \in 1..Len(aw) : aw[k].kind = "previews" THEN aw
  ELSE Append(aw, [kind |-> "previews", arg |-> <<>>])

RemoveRow(i) ==
  /\ rev \in {"rev17", "grid"} /\ mounted
  /\ i \in 1..Len(rows)
  /\ rows' = remove(rows, i)
  /\ mounted' = ~computeInsightsThrows(rows')
  /\ awaits' = refreshPreviews(awaits, mounted')
  /\ UNCHANGED <<apiVars, rev, input, messages, memory, useAI, apiKey, sends,
                 gated, previews, exported, edits, cards, asked, viewVars>>

\* setMessages(user); res = answerLocal(..); setMessages(ai); setMemory(res.mem):
\* when answerLocal throws, only the first update is made
send17_set(res, q, mem, msgs) ==
  IF res.threw THEN [messages |-> Append(msgs, Msg("user", q)), memory |-> mem]
  ELSE [messages |-> msgs \o <<Msg("user", q), Msg("ai", res.text)>>, memory |-> res.mem]

\* a send() that answers every question without the memory of the last one
send17_local_forgetful(q, rs, mem, msgs) ==
  send17_set(answerLocal(q, rs, DefaultContext, EmptyMemory), q, mem, msgs)

\* Rev 17 send(), the branch without a network call: [messages', memory']
send17_local(q, rs, mem, msgs) ==
  send17_set(answerLocal(q, rs, DefaultContext, mem), q, mem, msgs)

\* Rev 18 send(): setMem(newMem); setLog(l => [...l, {q, a: text}]), the entry
\* being shown as a 'You:' line and an 'Askura:' line
send18(q, rs, mem, msgs) == send17_set(answerLocal18(q, rs, mem), q, mem, msgs)

\* which way a send() goes
sendPath(r, ai, key) ==
  IF r = "rev17" THEN (IF ai /\ Truthy(key) THEN "openai" ELSE "local")
  ELSE IF r = "rev18" THEN "local"
  ELSE "askura"

\* the question as sent: Rev 20 trims it, Rev 17 and Rev 19 do not
sentQuestion(r, inp) == IF r = "rev20" THEN Trim(inp) ELSE inp

\* a test that lets an input of blanks pass
isBlank_emptyOnly(inp) == inp = <<>>

\* !input.trim()
isBlank(inp) == Trim(inp) = <<>>

\* send(): a blank input returns at once
Send ==
  /\ rev # "api" /\ mounted
  /\ Len(sends) < MaxSends
  /\ IF isBlank(input)
       THEN /\ blanks < MaxBlank
            /\ blanks' = blanks + 1
            /\ UNCHANGED <<apiVars, uiVars, pageVars, slide, controls, data, drawn, modal>>
     ELSE
       LET q == sentQuestion(rev, input)
           path == sendPath(rev, useAI, apiKey)
           at == Len(messages) + 1
       IN /\ input' = <<>>
          /\ IF path = "local"
               THEN \E r \in {IF rev = "rev18" THEN send18(q, rows, memory, messages)
                               ELSE send17_local(q, rows, memory, messages)} :
                       /\ messages' = r.messages
                       /\ memory' = r.memory
                       /\ sends' = Append(sends,
                            SendRec(q, path, "done", 0, at,
                                    IF Len(r.messages) = at + 1 THEN at + 1 ELSE 0))
               ELSE /\ messages' = Append(messages, Msg("user", q))
                    /\ memory' = memory
                    /\ sends' = Append(sends, SendRec(q, path, "fetching", 1, at, 0))
          /\ UNCHANGED <<apiVars, rev, rows, mounted, useAI, apiKey, pageVars, viewVars>>

\* Rev 17 askOpenAI: the text it resolves to
askOpenAI17(u) ==
  IF u.kind = "throw" \/ ~Ok(u) \/ ~u.json THEN Unavailable17
  ELSE IF u.content = Undef THEN <<"No answer.">> ELSE u.content

\* Rev 17 send() after its await: the reply, then answerLocal for the memory only
send17_setAfter(resLocal, ai, mem, msgs) ==
  [messages |-> Append(msgs, Msg("ai", ai)),
   memory |-> IF resLocal.threw THEN mem ELSE resLocal.mem]

send17_resume(s, ai, mem, msgs) ==
  send17_setAfter(answerLocal(s.q, s.rows, DefaultContext, s.memory), ai, mem, msgs)

\* the browser's call to api.openai.com settles
OpenAISettles(k, u) ==
  /\ sends[k].path = "openai" /\ sends[k].pc = "fetching"
  /\ \E r \in {send17_resume(sends[k], askOpenAI17(u), memory, messages)} :
        IF mounted
          THEN /\ messages' = r.messages
               /\ memory' = r.memory
               /\ sends' = [sends EXCEPT ![k] =
                    Finished(@, Len(r.messages), u.kind = "throw" \/ ~Ok(u))]
          ELSE /\ UNCHANGED <<messages, memory>>     \* setState after the unmount
               /\ sends' = [sends EXCEPT ![k] = Finished(@, 0, u.kind = "throw" \/ ~Ok(u))]
  /\ UNCHANGED <<apiVars, rev, rows, mounted, input, useAI, apiKey, pageVars, viewVars>>

\* Rev 19/20 askOpenAI: the text it resolves to for a response of /api/askura
askOpenAI(resp) ==
  IF resp.status < 200 \/ resp.status > 299 THEN Unavailable       \* !res.ok
  ELSE IF resp.type # "json" THEN Unavailable                       \* res.json() rejects
  ELSE IF resp.field = "answer" /\ Truthy(resp.text) THEN resp.text
  ELSE <<"No answer.">>

\* Rev 19/20 send() after its await
send_resume(ai, msgs) ==
  IF ai # Unavailable THEN Append(msgs, Msg("ai", ai))
  ELSE Append(msgs, Msg("ai", LocalFallback))

\* the request of send k reaches the server and the handler starts
Deliver(k) ==
  /\ sends[k].path = "askura" /\ sends[k].pc = "fetching" /\ sends[k].inv = 0
  /\ Len(invs) < MaxReq
  /\ invs' = Append(invs,
       Invocation([method |-> "POST",
                   body |-> Body(sends[k].q, RowsArray(sends[k].rows), TRUE)], k))
  /\ sends' = [sends EXCEPT ![k] = [@ EXCEPT !.inv = Len(invs) + 1]]
  /\ UNCHANGED <<variant, envKey, rev, rows, mounted, input, messages, memory, useAI, apiKey, pageVars, viewVars>>

\* the handler's response reaches the browser
Reply(k) ==
  /\ sends[k].path = "askura" /\ sends[k].pc = "fetching" /\ sends[k].inv # 0
  /\ invs[sends[k].inv].sent # <<>>
  /\ LET resp == invs[sends[k].inv].sent[1]
         ai == askOpenAI(resp)
     IN /\ messages' = send_resume(ai, messages)
        /\ sends' = [sends EXCEPT ![k] =
             Finished(@, Len(messages) + 1, resp.status < 200 \/ resp.status > 299)]
  /\ invs' = [invs EXCEPT ![sends[k].inv] = [@ EXCEPT !.delivered = TRUE]]
  /\ UNCHANGED <<variant, envKey, rev, rows, mounted, input, memory, useAI, apiKey, pageVars, viewVars>>

\* fetch('/api/askura') rejects: the server is not reached or the reply is lost
NetworkFails(k) ==
  /\ sends[k].path = "askura" /\ sends[k].pc = "fetching"
  /\ messages' = send_resume(Unavailable, messages)
  /\ sends' = [sends EXCEPT ![k] = Finished(@, Len(messages) + 1, TRUE)]
  /\ UNCHANGED <<apiVars, rev, rows, mounted, input, memory, useAI, apiKey, pageVars, viewVars>>

-----------------------------------------------------------------------------

D3(k) == IF k < 100 THEN "0" \o D2(k) ELSE ToString(k)

RECURSIVE Grouped(_)
\* the digits of n >= 0 in groups of three, separated by commas
Grouped(n) ==
  IF n < 1000 THEN <<ToString(n)>> ELSE Grouped(n \div 1000) \o <<",", D3(n % 1000)>>

\* n.toLocaleString() in an en-US browser
toLocaleString(n) == IF n < 0 THEN <<"-">> \o Grouped(-n) ELSE Grouped(n)

\* a loop that also takes a later row of equal revenue
bestYearOf_lastOfTies(rs) ==
  IF rs = <<>> THEN ""
  ELSE rs[CHOOSE i \in 1..Len(rs) :
            /\ \A k \in 1..Len(rs) : rs[k].revenue <= rs[i].revenue
            /\ \A k \in (i + 1)..Len(rs) : rs[k].revenue < rs[i].revenue].period

\* the for loop: the period of the first row no later row's revenue exceeds
bestYearOf(rs) ==
  IF rs = <<>> THEN ""
  ELSE rs[CHOOSE i \in 1..Len(rs) :
            /\ \A k \in 1..Len(rs) : rs[k].revenue <= rs[i].revenue
            /\ \A k \in 1..(i - 1) : rs[k].revenue < rs[i].revenue].period

\* the values of the three cards
PremiumKpiCards(rs) ==
  LET \* pct(a, b): the change from a to b, in tenths of a percent
      pctKpi(a, b) == IF a = 0 THEN Frac(0, 1) ELSE Frac((b - a) * 1000, a)
      \* x.toFixed(1) for x = t / 10
      toFixed1(t) == (IF t < 0 THEN "-" ELSE "") \o ToString(Abs(t) \div 10)
                     \o "." \o ToString(Abs(t) % 10)
      growthPct == IF rs = <<>> THEN Frac(0, 1)
                   ELSE pctKpi(rs[1].revenue, rs[Len(rs)].revenue)
  IN [totalRev |-> toLocaleString(SumSeq(rs, "revenue")),
      bestYear |-> bestYearOf(rs),
      growth |-> toFixed1(Round(growthPct.n, growthPct.d)) \o "%"]

\* no card rendered yet
NoCards == [totalRev |-> <<>>, bestYear |-> undefined, growth |-> undefined]

\* the page state as HomePage mounts it
InitPage ==
  /\ gated = FALSE
  /\ previews = 0
  /\ exported = <<>>
  /\ awaits = <<[kind |-> "previews", arg |-> <<>>]>>      \* the effect of the first render
  /\ edits = 0
  /\ cards = NoCards
  /\ asked = <<>>

\* the chart controls as HomePage mounts them
DefaultControls ==
  [mode |-> "line", yA |-> "units", yB |-> "revenue", secondaryOn |-> FALSE,
   useRightAxis |-> FALSE]

\* no figure rendered, no modal mounted
NotDrawn == [points |-> {}, bars |-> {}, pie |-> <<>>, donut |-> <<>>,
             margin |-> Frac(0, 1), mini |-> {}, line |-> {}]
NoModal == [mounted |-> FALSE, open |-> FALSE, onClose |-> "f", listeners |-> <<>>,
            renders |-> 0, keys |-> 0, key |-> "", closed |-> <<>>]

InitView ==
  /\ blanks = 0
  /\ slide = [i |-> 0, by |-> "mount"]
  /\ controls = DefaultControls
  /\ data = <<>>
  /\ drawn = NotDrawn
  /\ modal = NoModal

InitApi ==
  /\ variant \in Variants
  /\ envKey \in EnvKeys
  /\ invs = <<>>
  /\ rev = "api"
  /\ rows = defaultRows
  /\ mounted = TRUE
  /\ input = <<>>
  /\ messages = <<>>
  /\ memory = EmptyMemory
  /\ useAI = FALSE
  /\ apiKey = <<>>
  /\ sends = <<>>
  /\ InitPage
  /\ InitView

NextApi ==
  \/ \E m \in Methods, b \in Bodies : Request(m, b)
  \/ \E i \in 1..Len(invs), u \in Outcomes : UpstreamSettles(i, u)

SpecApi == InitApi /\ [][NextApi]_vars

InitUI ==
  /\ variant \in Variants
  /\ envKey \in EnvKeys
  /\ invs = <<>>
  /\ rev \in {"rev17", "rev18", "rev19", "rev20"}
  /\ rev \in {"rev17", "rev18"} => variant = "api" /\ envKey = Undef     \* no server
  /\ rows = defaultRows
  /\ mounted = TRUE
  /\ input = <<>>
  /\ messages = initialMessages(rev, rows)
  /\ memory = EmptyMemory
  /\ useAI = FALSE
  /\ apiKey = <<>>
  /\ sends = <<>>
  /\ InitPage
  /\ InitView

NextUI ==
  \/ \E q \in Questions(rev) : SetInput(q)
  \/ ToggleAI
  \/ \E k \in ApiKeys : SetApiKey(k)
  \/ \E i \in RemoveIdx : RemoveRow(i)
  \/ Send
  \/ \E k \in 1..Len(sends), u \in UIOutcomes : OpenAISettles(k, u)
  \/ \E k \in 1..Len(sends) : Deliver(k)
  \/ \E i \in 1..Len(invs), u \in UIOutcomes : UpstreamSettles(i, u)
  \/ \E k \in 1..Len(sends) : Reply(k)
  \/ \E k \in 1..Len(sends) : NetworkFails(k)

SpecUI == InitUI /\ [][NextUI]_vars

-----------------------------------------------------------------------------
(* HomePage Rev 17: the data table, the CSV import, the gate and the exports *)

MaxEdits == 2      \* cell updates, row additions and file imports per behaviour
MaxExported == 2   \* entries of the export log at which the export buttons are still pressed

\* a digit string too long for a finite number
Overlong == [k \in 1..(MaxDigits + 1) |-> "9"]

\* what a number column holds for the number n in hundredths: costPrice is
\* kept in hundredths, the other columns hold whole numbers
stored(key, n) ==
  IF key = "costPrice" \/ n \in {NaN, Infinity, -Infinity} THEN n ELSE n \div 100

\* what the user types into a cell of column key (whole numbers in the
\* columns that hold whole numbers)
CellInputs(key) ==
  IF key = "period" THEN {"2031", ""}
  ELSE IF key = "supplier" THEN {"Acme"}
  ELSE { <<"4", "a", "2">>, <<"N", "a", "N">>, <<"-">>, Overlong }
       \cup (IF key = "costPrice" THEN { <<"1", ".", "2", ".", "3">> } ELSE {})

\* DataGrid.update: period and supplier take the text, the other columns num(val)
update(rs, i, key, val) ==
  [rs EXCEPT ![i][key] = IF key \in {"period", "supplier"} THEN val
                         ELSE stored(key, num(val))]

\* DataGrid.add
add(rs) == Append(rs, Row(ToString(2026 + Len(rs)), 600, 360, "Northstar", 95, 60))

\* the files the user can pick: a name as its segments and dots, and the text
\* as lines of cells (a cell is a string of characters or of one word and blanks)
Files ==
  { [name |-> <<"sales", ".", "csv">>,
     lines |-> << << <<"Period">>, <<"Revenue">>, <<"units">>, <<" ", "supplier">>,
                     <<"CostPrice">>, <<"staff_exp">> >>,
                  << <<" ", "2030">>, <<"1", "2", "a", "5">>, <<>>, <<" ", "Acme", " ">>,
                     <<"1", ".", "2", ".", "3">>, Overlong >> >>],
    [name |-> <<"EMPTY", ".", "CSV">>,
     lines |-> << << <<"period">>, <<"revenue">> >> >>],
    [name |-> <<"book", ".", "xlsx">>,
     lines |-> << << <<"period">> >>, << <<"2032">> >> >>],
    [name |-> <<"csv">>,
     lines |-> << << <<"year">>, <<"revenue">> >>,
                  << <<" ">>, <<"5">> >>,
                  << <<"2031">>, <<"-", "7">> >> >>] }

\* ImportBox.parseCSV for the lines of text.trim()
parseCSV(lines) ==
  LET headers == IF lines = <<>> THEN <<>>
                 ELSE [k \in 1..Len(lines[1]) |-> toLowerCase(Trim(lines[1][k]))]
      \* cols[idx(h)] || '': the cell under header h, '' when there is none
      col(cols, h) ==
        IF \E k \in 1..Len(cols) : k <= Len(headers) /\ headers[k] = <<h>>
          THEN cols[CHOOSE k \in 1..Len(cols) :
                      /\ k <= Len(headers) /\ headers[k] = <<h>>
                      /\ \A j \in 1..(k - 1) : headers[j] # <<h>>]
          ELSE <<>>
      or(a, b) == IF a # <<>> THEN a ELSE b
      word(c) == IF Trim(c) = <<>> THEN "" ELSE Trim(c)[1]
      row(cols) ==
        Row(IF word(col(cols, "period")) # "" THEN word(col(cols, "period"))
            ELSE IF cols # <<>> THEN word(cols[1]) ELSE "",
            stored("revenue", num(or(col(cols, "revenue"), <<"0">>))),
            stored("units", num(or(col(cols, "units"), <<"0">>))),
            IF word(col(cols, "supplier")) # "" THEN word(col(cols, "supplier")) ELSE "Unknown",
            stored("costPrice",
                   num(or(or(col(cols, "costprice"), col(cols, "cost_price")), <<"0">>))),
            stored("staffExp",
                   num(or(or(col(cols, "staffexp"), col(cols, "staff_exp")), <<"0">>))))
      out == SelectSeq([k \in 1..(Len(lines) - 1) |-> row(lines[k + 1])],
                       LAMBDA r : r.period # "")
  IN IF out # <<>> THEN out ELSE defaultRows

\* onChange of a cell
Update(i, key, val) ==
  /\ rev = "grid" /\ mounted /\ edits < MaxEdits
  /\ i \in 1..Len(rows)
  /\ rows' = update(rows, i, key, val)
  /\ edits' = edits + 1
  /\ awaits' = refreshPreviews(awaits, TRUE)
  /\ UNCHANGED <<apiVars, rev, mounted, input, messages, memory, useAI, apiKey, sends,
                 gated, previews, exported, cards, asked, viewVars>>

\* the Add row button
Add ==
  /\ rev = "grid" /\ mounted /\ edits < MaxEdits
  /\ rows' = add(rows)
  /\ edits' = edits + 1
  /\ awaits' = refreshPreviews(awaits, TRUE)
  /\ UNCHANGED <<apiVars, rev, mounted, input, messages, memory, useAI, apiKey, sends,
                 gated, previews, exported, cards, asked, viewVars>>

\* ImportBox.handleFile up to its await: a file whose last segment is not
\* csv gets the alert
ImportFile(f) ==
  /\ rev = "grid" /\ mounted /\ edits < MaxEdits
  /\ edits' = edits + 1
  /\ awaits' = IF LowerTok(f.name[Len(f.name)]) = "csv"
                 THEN Append(awaits, [kind |-> "read", arg |-> f]) ELSE awaits
  /\ UNCHANGED <<apiVars, uiVars, gated, previews, exported, cards, asked, viewVars>>

\* an import that leaves the gate as it is
FileSettles_noGate(k, ok) ==
  /\ rev = "grid" /\ k \in 1..Len(awaits) /\ awaits[k].kind = "read"
  /\ IF ok /\ mounted
       THEN /\ rows' = parseCSV(awaits[k].arg.lines)
            /\ gated' = gated
            /\ awaits' = refreshPreviews(remove(awaits, k), TRUE)
       ELSE /\ awaits' = remove(awaits, k)
            /\ UNCHANGED <<rows, gated>>
  /\ UNCHANGED <<apiVars, rev, mounted, input, messages, memory, useAI, apiKey, sends,
                 previews, exported, edits, cards, asked, viewVars>>

\* f.text() settles: onRows(parseCSV(txt)); onGate(), or nothing when the
\* read fails; a page that is unmounted ignores both updates
FileSettles(k, ok) ==
  /\ rev = "grid" /\ k \in 1..Len(awaits) /\ awaits[k].kind = "read"
  /\ IF ok /\ mounted
       THEN /\ rows' = parseCSV(awaits[k].arg.lines)
            /\ gated' = TRUE
            /\ awaits' = refreshPreviews(remove(awaits, k), TRUE)
       ELSE /\ awaits' = remove(awaits, k)
            /\ UNCHANGED <<rows, gated>>
  /\ UNCHANGED <<apiVars, rev, mounted, input, messages, memory, useAI, apiKey, sends,
                 previews, exported, edits, cards, asked, viewVars>>

\* the Download PNG button of the chart: svgToPng serializes the chart at
\* once and resolves later
DownloadChart ==
  /\ rev = "grid" /\ mounted /\ Len(exported) < MaxExported
  /\ IF gated THEN exported' = Append(exported, "return") /\ awaits' = awaits
     ELSE /\ exported' = Append(exported, "svgToPng")
          /\ awaits' = Append(awaits, [kind |-> "png", arg |-> "chartura-chart.png"])
  /\ UNCHANGED <<apiVars, uiVars, gated, previews, edits, cards, asked, viewVars>>

\* a slide download without the gate
DownloadSlides_ungated ==
  /\ rev = "grid" /\ mounted /\ Len(exported) < MaxExported
  /\ IF previews > 0
       THEN /\ exported' = exported \o [i \in 1..previews |->
                                          "Chartura_Slide_" \o ToString(i) \o ".png"]
            /\ awaits' = awaits
       ELSE /\ exported' = Append(exported, "svgToPng")
            /\ awaits' = Append(awaits, [kind |-> "png", arg |-> "Chartura_Slide_1.png"])
  /\ UNCHANGED <<apiVars, uiVars, gated, previews, edits, cards, asked, viewVars>>

\* Slides.download: the previews when there are some, else the chart
DownloadSlides ==
  /\ rev = "grid" /\ mounted /\ Len(exported) < MaxExported
  /\ IF gated THEN exported' = Append(exported, "return") /\ awaits' = awaits
     ELSE IF previews > 0
       THEN /\ exported' = exported \o [i \in 1..previews |->
                                          "Chartura_Slide_" \o ToString(i) \o ".png"]
            /\ awaits' = awaits
       ELSE /\ exported' = Append(exported, "svgToPng")
            /\ awaits' = Append(awaits, [kind |-> "png", arg |-> "Chartura_Slide_1.png"])
  /\ UNCHANGED <<apiVars, uiVars, gated, previews, edits, cards, asked, viewVars>>

\* the Refresh previews button
RefreshPreviews ==
  /\ rev = "grid" /\ mounted
  /\ awaits' = refreshPreviews(awaits, TRUE)
  /\ UNCHANGED <<apiVars, uiVars, gated, previews, exported, edits, cards, asked, viewVars>>

\* svgToPng resolves: the download of an export handler, or setPreviews([d, d, d])
ConversionSettles(k) ==
  /\ rev \in {"grid", "chart"} /\ k \in 1..Len(awaits) /\ awaits[k].kind \in {"png", "previews"}
  /\ awaits' = remove(awaits, k)
  /\ IF awaits[k].kind = "png"
       THEN exported' = Append(exported, awaits[k].arg) /\ previews' = previews
       ELSE exported' = exported /\ previews' = (IF mounted THEN 3 ELSE previews)
  /\ UNCHANGED <<apiVars, uiVars, gated, edits, cards, asked, viewVars>>

InitGrid ==
  /\ variant = "api" /\ envKey = Undef /\ invs = <<>>
  /\ rev = "grid"
  /\ rows = defaultRows
  /\ mounted = TRUE
  /\ input = <<>>
  /\ messages = <<>>
  /\ memory = EmptyMemory
  /\ useAI = FALSE
  /\ apiKey = <<>>
  /\ sends = <<>>
  /\ InitPage
  /\ InitView

NextGrid ==
  \/ \E i \in RemoveIdx,
        key \in {"period", "revenue", "units", "supplier", "costPrice", "staffExp"} :
       \E val \in CellInputs(key) : Update(i, key, val)
  \/ Add
  \/ \E i \in RemoveIdx : RemoveRow(i)
  \/ \E f \in Files : ImportFile(f)
  \/ \E k \in 1..Len(awaits), ok \in BOOLEAN : FileSettles(k, ok)
  \/ DownloadChart
  \/ DownloadSlides
  \/ RefreshPreviews
  \/ \E k \in 1..Len(awaits) : ConversionSettles(k)

SpecGrid == InitGrid /\ [][NextGrid]_vars

-----------------------------------------------------------------------------
(* The Rev 17 local answerer on its own: a chat that only takes the local   *)
(* branch of send(), over a table that holds one of a few row lists         *)

MaxAsk == 3        \* answerLocal calls per behaviour

\* the tables asked about: the default one, one with a year of zero revenue, a
\* year of two rows and two years of the same highest revenue, and the empty one
AnswerRows ==
  { defaultRows,
    << Row("2024", 0, 10, "Skyline", 50, 5),
       Row("2025", 800, 30, "Skyline", 60, 7),
       Row("2025", 50, 10, "Northstar", 40, 3),
       Row("2026", 800, 5, "BluePeak", 70, 2) >>,
    <<>> }

\* questions about the table
DataQuestions ==
  { <<"highest", " ", "margin">>,
    <<"lowest", " ", "cost", " ", "price">>,
    <<"Revenue">>,
    <<"Revenue", " ", "2025", " ">>,
    <<"units", " ", "2024", " ", "2025", " ", "2025">>,
    <<"staff", " ", "skyline">>,
    <<"units", " ", "2025", " ", "northstar">>,
    <<"average", " ", "revenue">>,
    <<"avg", " ", "units", " ", "2025">>,
    <<"average", " ", "staff", " ", "skyline">>,
    <<"average", " ", "cost">>,
    <<"revenue", " ", "growth", " ", "2024", " ", "to", " ", "2025">>,
    <<"change", " ", "in", " ", "units", " ", "2025", " ", "2024">>,
    <<"staff", " ", "increase", " ", "2027", " ", "2025">> }

\* the follow-ups, small talk and a question no branch matches
OtherQuestions ==
  { <<"when", " ", "was", " ", "this", "?">>, <<"Which", " ", "year", "?">>,
    <<"thanks">>, <<"hello">> }

\* send() with useAI off: res = answerLocal(...); setMemory(res.mem)
Ask(q) ==
  /\ rev = "answer"
  /\ Len(asked) < MaxAsk
  /\ \E r \in {answerLocal(q, rows, DefaultContext, memory)} :
       /\ asked' = Append(asked, [q |-> q, res |-> r])
       /\ memory' = IF r.threw THEN memory ELSE r.mem
  /\ UNCHANGED <<apiVars, rev, rows, mounted, input, messages, useAI, apiKey, sends,
                 gated, previews, exported, awaits, edits, cards, viewVars>>

\* React renders the KPI cards for the rows
RenderKpi ==
  /\ rev = "answer"
  /\ cards # PremiumKpiCards(rows)
  /\ cards' = PremiumKpiCards(rows)
  /\ UNCHANGED <<apiVars, uiVars, gated, previews, exported, awaits, edits, asked, viewVars>>

InitAnswer ==
  /\ variant = "api" /\ envKey = Undef /\ invs = <<>>
  /\ rev = "answer"
  /\ rows \in AnswerRows
  /\ mounted = TRUE
  /\ input = <<>>
  /\ messages = <<>>
  /\ memory = EmptyMemory
  /\ useAI = FALSE
  /\ apiKey = <<>>
  /\ sends = <<>>
  /\ InitPage
  /\ InitView

NextAnswer ==
  \/ \E q \in DataQuestions \cup OtherQuestions : Ask(q)
  \/ RenderKpi

SpecAnswer == InitAnswer /\ [][NextAnswer]_vars

-----------------------------------------------------------------------------
(* HomePage Rev 17 charts and hero carousel, the premium showcase charts.    *)
(* A coordinate is a quotient n / d kept exact; a quotient with d = 0 is no  *)
(* finite number (NaN when n = 0, an infinity otherwise). Chart values are   *)
(* in hundredths. An angle is in degrees: a point of a circle is given by   *)
(* its angle up to whole turns.                                              *)

MathMax(S) == CHOOSE m \in S : \A x \in S : x <= m
MathMin(S) == CHOOSE m \in S : \A x \in S : m <= x

\* r[key] in hundredths
value100(r, key) == IF key = "costPrice" THEN r.costPrice ELSE r[key] * 100

\* buildSeries: b is <<>> when no secondary metric is passed
buildSeries(rs, yA, yB) ==
  [i \in 1..Len(rs) |->
     [x |-> i - 1, label |-> rs[i].period, a |-> value100(rs[i], yA),
      b |-> IF yB # undefined THEN <<value100(rs[i], yB)>> ELSE <<>>]]

RECURSIVE arcsFrom(_, _, _)
\* the slices laid end to end: each takes v / whole of 360 degrees and starts
\* where the one before ended, the first at -90 (whole > 0)
arcsFrom(vals, whole, before) ==
  IF vals = <<>> THEN <<>>
  ELSE <<[value |-> Head(vals),
          start |-> Frac(360 * before - 90 * whole, whole),
          end |-> Frac(360 * (before + Head(vals)) - 90 * whole, whole),
          large |-> 360 * Head(vals) > 180 * whole]>>
       \o arcsFrom(Tail(vals), whole, before + Head(vals))

\* PremiumChart, pie mode: ang = totalA ? (p.a / totalA) * 360 : 0
pieArcs(series) ==
  LET vals == [i \in 1..Len(series) |-> series[i].a]
      totalA == SumInts(vals)
  IN IF totalA = 0 THEN arcsFrom([i \in 1..Len(series) |-> 0], 1, 0)
     ELSE IF totalA < 0
       THEN [i \in 1..Len(series) |->
               [arcsFrom([k \in 1..Len(series) |-> -vals[k]], -totalA, 0)[i]
                  EXCEPT !.value = vals[i]]]
     ELSE arcsFrom(vals, totalA, 0)

\* PremiumChart, the other modes: the circles drawn and the bars drawn
PremiumChart(series, mode, useRightAxis) ==
  LET width == 860  height == 440  padL == 90  padR == 90  padT == 28  padB == 86
      plotW == width - padL - padR
      plotH == height - padT - padB
      n == Len(series)
      xs(i) == IF n <= 1 THEN Frac(2 * padL + plotW, 2)
               ELSE Frac(padL * (n - 1) + i * plotW, n - 1)
      aMin == MathMin({0} \cup {series[i].a : i \in 1..n})
      aMax == MathMax({100} \cup {series[i].a : i \in 1..n})
      bOr0(p) == IF p.b = <<>> THEN 0 ELSE p.b[1]                  \* p.b ?? 0, p.b || 0
      bMin == MathMin({0} \cup {bOr0(series[i]) : i \in 1..n})
      bMax == MathMax({100} \cup {bOr0(series[i]) : i \in 1..n})
      or1(d) == IF d = 0 THEN 100 ELSE d                            \* d || 1
      ysA(v) == Frac((height - padB) * or1(aMax - aMin) - (v - aMin) * plotH, or1(aMax - aMin))
      ysB(v) == IF useRightAxis
                  THEN Frac((height - padB) * or1(bMax - bMin) - (v - bMin) * plotH,
                            or1(bMax - bMin))
                  ELSE ysA(v)
      someB == \E i \in 1..n : series[i].b # <<>>
      bar(y) == [y |-> y, h |-> Frac((height - padB) * y.d - y.n, y.d)]
      circlesA == {[x |-> xs(i - 1), y |-> ysA(series[i].a)] : i \in 1..n}
      circlesB == IF someB THEN {[x |-> xs(i - 1), y |-> ysB(bOr0(series[i]))] : i \in 1..n}
                  ELSE {}
  IN CASE mode \in {"area", "line", "scatter"} ->
            [points |-> circlesA \cup circlesB, bars |-> {}]
       [] mode = "dual" ->
            [points |-> circlesA,
             bars |-> IF someB
                        THEN {bar(ysB(MathMax({0, bOr0(series[i])}))) : i \in 1..n}
                        ELSE {}]
       [] mode = "bar" ->
            [points |-> {},
             bars |-> {bar(ysA(series[i].a)) : i \in 1..n}
                      \cup {bar(ysB(bOr0(series[i]))) : i \in {k \in 1..n : series[k].b # <<>>}}]
       [] OTHER -> [points |-> {}, bars |-> {}]

\* PremiumShowcase: the revenue of each supplier, in first-seen order
donutData(rs) ==
  LET names == Dedup([i \in 1..Len(rs) |-> rs[i].supplier], {})
  IN [k \in 1..Len(names) |->
        [label |-> names[k],
         value |-> 100 * SumSeq(SelectSeq(rs, LAMBDA r : r.supplier = names[k]), "revenue")]]

\* PremiumDonutChart: total = Math.max(1, sum); ang = (d.value / total) * 2 pi
PremiumDonutChart(slices) ==
  arcsFrom([k \in 1..Len(slices) |-> slices[k].value],
           MathMax({100, SumInts([k \in 1..Len(slices) |-> slices[k].value])}), 0)

\* computeInsights: Math.round((marginL / latest.revenue) * 100), latest being
\* the last row of the rows sorted by +period (a stable sort)
latestMargin(rs) ==
  LET num_(p) == CHOOSE y \in 2000..2099 : ToString(y) = p
      last == CHOOSE i \in 1..Len(rs) :
                /\ \A k \in 1..Len(rs) : num_(rs[k].period) <= num_(rs[i].period)
                /\ \A k \in (i + 1)..Len(rs) : rs[k].period # rs[i].period
  IN IF rs[last].revenue = 0 THEN Frac(Margin100(rs[last]), 0)
     ELSE Frac(Round(Margin100(rs[last]), rs[last].revenue), 1)

\* HeroIntro: the points of the mini chart
miniPts(rs) ==
  LET maxU == MathMax({rs[k].units : k \in 1..Len(rs)})
      step == IF Len(rs) - 1 = 0 THEN 1 ELSE Len(rs) - 1
  IN {[x |-> Frac(20 * step + (idx - 1) * 280, step),
       y |-> Frac(150 * maxU - rs[idx].units * 110, maxU)] : idx \in 1..Len(rs)}

\* scaleLinear(domainMin, domainMax, rangeMin, rangeMax)(v) for v a quotient
scaleLinear(domainMin, domainMax, rangeMin, rangeMax, v) ==
  LET d == IF domainMax - domainMin = 0 THEN 1 ELSE domainMax - domainMin
      r == rangeMax - rangeMin
  IN Frac(rangeMin * d * v.d + (v.n - domainMin * v.d) * r, d * v.d)

\* PremiumLineChart of the rows' revenue: the scale values of its points and
\* of its grid lines
PremiumLineChart(rs) ==
  LET width == 720  height == 320  padL == 56  padR == 24  padT == 40  padB == 42
      plotW == width - padL - padR
      plotH == height - padT - padB
      ys == {rs[k].revenue : k \in 1..Len(rs)}
      minY == MathMin(ys \cup {0})
      maxY == MathMax(ys)
      maxOr1 == IF maxY = 0 THEN 1 ELSE maxY
      span == IF maxY - minY = 0 THEN 1 ELSE maxY - minY
  IN {scaleLinear(0, MathMax({Len(rs) - 1, 1}), padL, padL + plotW, Frac(k - 1, 1))
        : k \in 1..Len(rs)}
     \cup {scaleLinear(minY, maxOr1, padT + plotH, padT, Frac(y, 1)) : y \in ys}
     \cup {scaleLinear(minY, maxOr1, padT + plotH, padT, Frac(4 * minY + t * span, 4))
             : t \in 0..4}

\* one render of the page for the rows, the controls and the donut's slices
Render(rs, c, slices) ==
  LET series == buildSeries(rs, c.yA, IF c.secondaryOn THEN c.yB ELSE undefined)
      chart == PremiumChart(series, c.mode, c.secondaryOn /\ c.useRightAxis)
  IN [points |-> chart.points, bars |-> chart.bars,
      pie |-> IF c.mode = "pie" THEN pieArcs(series) ELSE <<>>,
      donut |-> PremiumDonutChart(slices),
      margin |-> latestMargin(rs), mini |-> miniPts(rs), line |-> PremiumLineChart(rs)]

\* a chart control is set: the page renders again and the effect on the
\* controls refreshes the previews
SetControl(c) ==
  /\ rev = "chart" /\ c # controls
  /\ controls' = c
  /\ \E d \in {Render(rows, c, data)} : drawn' = d
  /\ awaits' = refreshPreviews(awaits, TRUE)
  /\ UNCHANGED <<apiVars, uiVars, gated, previews, exported, edits, cards, asked,
                 blanks, slide, data, modal>>

Modes == {"line", "area", "bar", "scatter", "dual", "pie"}
MetricKeys == {"revenue", "units", "costPrice", "staffExp"}

SetMode(val) == SetControl([controls EXCEPT !.mode = val])
SetYA(key) == SetControl([controls EXCEPT !.yA = key])
\* the secondary metric and the right-axis box are shown while secondary is on
SetYB(key) == controls.secondaryOn /\ SetControl([controls EXCEPT !.yB = key])
SetSecondaryOn(on) == SetControl([controls EXCEPT !.secondaryOn = on])
SetUseRightAxis(on) ==
  /\ controls.mode # "pie" /\ controls.secondaryOn
  /\ SetControl([controls EXCEPT !.useRightAxis = on])

\* the row lists charted: the default rows, one row, a list whose latest year
\* has no revenue and whose units are all 0, a list with one row holding the total
ChartRows ==
  { defaultRows,
    <<Row("2025", 590, 380, "Skyline", 96, 58)>>,
    <<Row("2024", 520, 0, "BluePeak", 94, 54), Row("2025", 0, 0, "Skyline", 96, 58)>>,
    <<Row("2024", 0, 0, "BluePeak", 94, 54), Row("2025", 590, 380, "Skyline", 96, 58)>> }

\* slices given to the donut besides the showcase's own: values below 1
SmallSlices ==
  { <<[label |-> "Skyline", value |-> 50]>>,
    <<[label |-> "Skyline", value |-> 25], [label |-> "BluePeak", value |-> 25]>> }

InitChart ==
  /\ variant = "api" /\ envKey = Undef /\ invs = <<>>
  /\ rev = "chart"
  /\ rows \in ChartRows
  /\ mounted = TRUE
  /\ input = <<>>
  /\ messages = <<>>
  /\ memory = EmptyMemory
  /\ useAI = FALSE
  /\ apiKey = <<>>
  /\ sends = <<>>
  /\ InitPage
  /\ blanks = 0
  /\ slide = [i |-> 0, by |-> "mount"]
  /\ controls = DefaultControls
  /\ data \in {donutData(rows)} \cup SmallSlices
  /\ drawn = Render(rows, controls, data)
  /\ modal = NoModal

NextChart ==
  \/ \E val \in Modes : SetMode(val)
  \/ \E key \in MetricKeys : SetYA(key)
  \/ \E key \in MetricKeys : SetYB(key)
  \/ \E on \in BOOLEAN : SetSecondaryOn(on)
  \/ \E on \in BOOLEAN : SetUseRightAxis(on)
  \/ \E k \in 1..Len(awaits) : ConversionSettles(k)

SpecChart == InitChart /\ [][NextChart]_vars

-----------------------------------------------------------------------------
(* The hero carousel of HomePage Rev 17 and the trial modal: the two        *)
(* components that register a timer or a listener in an effect. A render    *)
(* and the effects it schedules are one step.                               *)

\* a wrap that takes the remainder of n itself
wrap_remainder(n, len) == IF n < 0 THEN -((-n) % len) ELSE n % len

\* wrap = (n, len) => (n + len) % len, % being the remainder of JavaScript
wrap(n, len) == IF n + len < 0 THEN -((-(n + len)) % len) ELSE (n + len) % len

\* setI of the carousel: the interval timer, the two arrows, the three dots
SetI(v, by) ==
  /\ rev = "hero"
  /\ slide' = [i |-> v, by |-> by]
  /\ UNCHANGED <<apiVars, uiVars, pageVars, blanks, controls, data, drawn, modal>>

Tick == SetI(wrap(slide.i + 1, 3), "tick")
Previous == SetI(wrap(slide.i - 1, 3), "previous")
NextSlide == SetI(wrap(slide.i + 1, 3), "next")
Dot(idx) == SetI(idx, "dot")

\* a cleanup that leaves the listener on the document
removeEventListener_leaks(listeners) == listeners

\* the cleanup of the effect: document.removeEventListener('keydown', onEsc),
\* onEsc being the listener the effect added last
removeEventListener(listeners) == SubSeq(listeners, 1, Len(listeners) - 1)

\* useEffect(..., [open, onClose]) at a commit of TrialModal with the props
\* open and onClose: when a dependency changed the cleanup of the last run,
\* then the effect, which adds a listener if open (a listener is the onClose
\* its closure calls)
TrialModal(m, open, onClose) ==
  LET changed == ~m.mounted \/ m.open # open \/ m.onClose # onClose
      cleaned == IF m.mounted /\ changed /\ m.open
                   THEN removeEventListener(m.listeners) ELSE m.listeners
  IN [m EXCEPT !.mounted = TRUE, !.open = open, !.onClose = onClose,
               !.renders = @ + 1,
               !.listeners = IF changed /\ open THEN Append(cleaned, onClose)
                             ELSE cleaned]

\* the parent renders TrialModal (the first render mounts it)
RenderModal(open, onClose) ==
  /\ rev = "hero" /\ modal.renders < MaxRenders
  /\ modal' = TrialModal(modal, open, onClose)
  /\ UNCHANGED <<apiVars, uiVars, pageVars, blanks, slide, controls, data, drawn>>

\* the parent drops TrialModal: the cleanup of the last effect run
UnmountModal ==
  /\ rev = "hero" /\ modal.mounted
  /\ modal' = [modal EXCEPT !.mounted = FALSE,
                            !.listeners = IF modal.open THEN removeEventListener(@) ELSE @]
  /\ UNCHANGED <<apiVars, uiVars, pageVars, blanks, slide, controls, data, drawn>>

\* a keydown event on the document: every listener runs
\* e.key === 'Escape' && onClose()
KeyDown(key) ==
  /\ rev = "hero" /\ modal.keys < MaxKeys
  /\ modal' = [modal EXCEPT !.keys = @ + 1, !.key = key,
                            !.closed = IF key = "Escape" THEN @ \o modal.listeners ELSE @]
  /\ UNCHANGED <<apiVars, uiVars, pageVars, blanks, slide, controls, data, drawn>>

InitHero ==
  /\ variant = "api" /\ envKey = Undef /\ invs = <<>>
  /\ rev = "hero"
  /\ rows = defaultRows
  /\ mounted = TRUE
  /\ input = <<>>
  /\ messages = <<>>
  /\ memory = EmptyMemory
  /\ useAI = FALSE
  /\ apiKey = <<>>
  /\ sends = <<>>
  /\ InitPage
  /\ InitView

NextHero ==
  \/ Tick
  \/ Previous
  \/ NextSlide
  \/ \E idx \in 0..2 : Dot(idx)
  \/ \E open \in BOOLEAN, onClose \in {"f", "g"} : RenderModal(open, onClose)
  \/ UnmountModal
  \/ \E key \in {"Escape", "Enter"} : KeyDown(key)

SpecHero == InitHero /\ [][NextHero]_vars

-----------------------------------------------------------------------------
(* Claims about the /api/askura handlers (SpecApi) *)

Is2xx(st) == st >= 200 /\ st <= 299

UpstreamFailed(u) == u.kind = "throw" \/ (u.kind = "http" /\ ~Ok(u))

\* C1: every handler invocation sends exactly one response (never two, and one
\* once it has returned), and that response is a JSON object {answer} or {error},
\* for every method, body, key setting and upstream outcome.
C1_OneJsonResponse ==
  \A i \in 1..Len(invs) :
    /\ Len(invs[i].sent) <= 1
    /\ invs[i].pc = "done" =>
         /\ Len(invs[i].sent) = 1
         /\ invs[i].sent[1].type = "json"
         /\ invs[i].sent[1].field \in {"answer", "error"}

\* C2: when the chat-completion call throws or returns a non-OK status, the
\* handler answers once, with a non-2xx status and a JSON {error} body.
C2_UpstreamFailureIsError ==
  \A i \in 1..Len(invs) :
    (invs[i].pc = "done" /\ UpstreamFailed(invs[i].up)) =>
      /\ Len(invs[i].sent) = 1
      /\ ~Is2xx(invs[i].sent[1].status)
      /\ invs[i].sent[1].type = "json"
      /\ invs[i].sent[1].field = "error"

\* both kinds of upstream failure have been answered
C2_Witness ==
  \E i, j \in 1..Len(invs) :
    /\ invs[i].pc = "done" /\ invs[i].up.kind = "throw"
    /\ invs[j].pc = "done" /\ invs[j].up.kind = "http" /\ ~Ok(invs[j].up)

BadMethod(req) == req.method # "POST"
BadBody(req) == ~Truthy(req.body.question) \/ req.body.rows.kind # "array"

\* C3: a request that is not POST is answered 405, a POST whose body has no
\* question or whose rows are no array is answered 400, and for neither is the
\* chat-completion API called.
C3_RejectedBeforeUpstream ==
  \A i \in 1..Len(invs) :
    /\ BadMethod(invs[i].req) =>
         /\ invs[i].fetches = 0
         /\ invs[i].pc = "done" /\ invs[i].sent[1].status = 405
    /\ (~BadMethod(invs[i].req) /\ BadBody(invs[i].req)) =>
         /\ invs[i].fetches = 0
         /\ invs[i].pc = "done" /\ invs[i].sent[1].status = 400

\* C4: a 200 {answer} response follows an upstream call that returned OK with a
\* non-empty answer text, and the answer is that text (as received or trimmed).
C4_AnswerIsRelayed ==
  \A i \in 1..Len(invs) :
    \A k \in 1..Len(invs[i].sent) :
      (invs[i].sent[k].status = 200 /\ invs[i].sent[k].field = "answer") =>
        /\ invs[i].fetches = 1
        /\ Ok(invs[i].up) /\ invs[i].up.json
        /\ Truthy(invs[i].up.content) /\ Trim(invs[i].up.content) # <<>>
        /\ invs[i].sent[k].text \in {invs[i].up.content, Trim(invs[i].up.content)}

-----------------------------------------------------------------------------
(* Claims about the chat front ends (SpecUI) *)

Count(role) == Cardinality({i \in 1..Len(messages) : messages[i].role = role})
Initial(role) ==
  LET m0 == initialMessages(rev, defaultRows)
  IN Cardinality({i \in 1..Len(m0) : m0[i].role = role})
DoneSends == {k \in 1..Len(sends) : sends[k].pc = "done"}

Transcript ==
  /\ Count("user") = Initial("user") + Len(sends)
  /\ Count("ai") = Initial("ai") + Cardinality(DoneSends)
  /\ \A k \in 1..Len(sends) :
       /\ sends[k].at \in 1..Len(messages)
       /\ messages[sends[k].at] = Msg("user", sends[k].q)
       /\ sends[k].pc = "done" <=> sends[k].reply # 0
       /\ sends[k].reply # 0 =>
            /\ sends[k].reply \in (sends[k].at + 1)..Len(messages)
            /\ messages[sends[k].reply].role = "ai"
  /\ \A k, l \in 1..Len(sends) :
       k # l => sends[k].at # sends[l].at
                /\ (sends[k].reply # 0 => sends[k].reply # sends[l].reply)

\* C7: every send with a non-blank input has its one user message, every settled
\* send has one AI message after it, every pending send none, and the transcript
\* holds nothing else: no question is left without a reply and none gets two.
C7_OneReplyPerQuestion == Transcript

\* C7, as far as it holds: the same while the page is mounted, that is until
\* the last row is removed in Rev 17 and the render of the insights throws.
C7_WhileMounted == mounted => Transcript

\* C8: on the homepage (Rev 19, Rev 20), when /api/askura fails the AI message
\* appended for the question is the local answerer's answer to it.
C8_FallsBackToLocalAnswer ==
  \A k \in 1..Len(sends) :
    (sends[k].path = "askura" /\ sends[k].pc = "done" /\ sends[k].failed) =>
      messages[sends[k].reply].text
        = answerLocal(sends[k].q, defaultRows, DefaultContext, EmptyMemory).text

\* txt occurs in msg
Carries(msg, txt) ==
  \E i \in 1..(Len(msg) - Len(txt) + 1) : SubSeq(msg, i, i + Len(txt) - 1) = txt

\* C9: in Rev 17 with AI enabled, when the OpenAI call of a question fails the
\* reply appended for it carries answerLocal's answer text for the question.
C9_FailedAIAnsweredLocally ==
  [][\A k \in 1..Len(sends) :
       ( /\ mounted /\ sends[k].path = "openai"
         /\ sends[k].pc = "fetching" /\ sends'[k].pc = "done" /\ sends'[k].failed ) =>
         Carries(messages'[Len(messages')].text,
                 answerLocal(sends[k].q, sends[k].rows, DefaultContext, sends[k].memory).text)]_vars

\* a Rev 17 send() step taken with 'Use OpenAI' off or no key entered
LocalSendStep ==
  /\ rev = "rev17" /\ Len(sends') = Len(sends) + 1
  /\ ~useAI \/ apiKey = <<>>

\* C10: such a send makes no network call, appends the question and then exactly
\* answerLocal(question, rows, context, memory).text, and replaces memory by the
\* memory answerLocal returned.
C10_LocalSend ==
  [][LocalSendStep =>
       LET res == answerLocal(input, rows, DefaultContext, memory)
       IN /\ ~res.threw
          /\ messages' = messages \o <<Msg("user", input), Msg("ai", res.text)>>
          /\ memory' = res.mem
          /\ sends'[Len(sends')].fetches = 0 /\ sends'[Len(sends')].pc = "done"
          /\ invs' = invs]_vars

\* a local send has answered a follow-up from the memory an earlier one left
C10_Witness ==
  /\ rev = "rev17" /\ Len(sends) = 2
  /\ \A k \in 1..2 : sends[k].path = "local"
  /\ memory.year # undefined
  /\ messages[Len(messages)].text = <<"It was in ", memory.year, ".">>

-----------------------------------------------------------------------------
(* Claims about the local answerer (SpecAnswer) *)

\* the years an answer text names
YearsNamed(text) == {text[i] : i \in {k \in 1..Len(text) : text[k] \in YearTokens}}

\* the calls before call k that answered a question about the table
DataBefore(k) == {j \in 1..(k - 1) : asked[j].q \in DataQuestions /\ ~asked[j].res.threw}

NeedReference ==
  <<"I need a reference. Ask a specific question first (e.g., lowest cost price).">>

\* C11: a follow-up ("when was this?", "which year?") is answered with a year
\* named by the latest answered data question, and with the request for a
\* reference when that answer named no year or no data question was asked
C11_FollowUpNamesLatestYear ==
  \A k \in 1..Len(asked) :
    FollowUp(toLowerCase(Trim(asked[k].q))) =>
      LET named == IF DataBefore(k) = {} THEN {}
                   ELSE YearsNamed(asked[CHOOSE j \in DataBefore(k) :
                                           \A i \in DataBefore(k) : i <= j].res.text)
      IN IF named = {} THEN asked[k].res.text = NeedReference
         ELSE \E y \in named : asked[k].res.text = <<"It was in ", y, ".">>

\* C12: answerLocal is total: for every question and every row list, the empty
\* one included, it returns a non-empty answer text and does not throw
C12_AnswerLocalTotal ==
  \A k \in 1..Len(asked) : ~asked[k].res.threw /\ asked[k].res.text # <<>>

\* what a question asks for: an aggregate of a column over the rows of the
\* years and of the supplier it names, or a change from year y1 to year y2
Wanted(kind, metric, years, supplier, y1, y2) ==
  [kind |-> kind, metric |-> metric, years |-> years, supplier |-> supplier,
   y1 |-> y1, y2 |-> y2]

Asks(q) ==
  CASE q = <<"Revenue">> -> Wanted("total", "revenue", {}, "", "", "")
    [] q = <<"Revenue", " ", "2025", " ">> -> Wanted("total", "revenue", {"2025"}, "", "", "")
    [] q = <<"units", " ", "2024", " ", "2025", " ", "2025">> ->
         Wanted("total", "units", {"2024", "2025"}, "", "", "")
    [] q = <<"staff", " ", "skyline">> -> Wanted("total", "staffExp", {}, "Skyline", "", "")
    [] q = <<"units", " ", "2025", " ", "northstar">> ->
         Wanted("total", "units", {"2025"}, "Northstar", "", "")
    [] q = <<"average", " ", "revenue">> -> Wanted("average", "revenue", {}, "", "", "")
    [] q = <<"avg", " ", "units", " ", "2025">> -> Wanted("average", "units", {"2025"}, "", "", "")
    [] q = <<"average", " ", "staff", " ", "skyline">> ->
         Wanted("average", "staffExp", {}, "Skyline", "", "")
    [] q = <<"revenue", " ", "growth", " ", "2024", " ", "to", " ", "2025">> ->
         Wanted("growth", "revenue", {}, "", "2024", "2025")
    [] q = <<"change", " ", "in", " ", "units", " ", "2025", " ", "2024">> ->
         Wanted("growth", "units", {}, "", "2025", "2024")
    [] q = <<"staff", " ", "increase", " ", "2027", " ", "2025">> ->
         Wanted("growth", "staffExp", {}, "", "2027", "2025")
    [] OTHER -> Wanted("other", "", {}, "", "", "")

\* the rows a question selects
Selected(w) ==
  SelectSeq(rows, LAMBDA r : /\ (w.years # {} => r.period \in w.years)
                             /\ (w.supplier # "" => r.supplier = w.supplier))

\* the number an aggregate answer reports: "<label>...: <number>."
Reported(text) == text[Len(text) - 1]

\* C15: for a question asking for the average of revenue, units or staff
\* expenses, the reported number is the column's sum over the selected rows
\* divided by the number of selected rows
C15_AverageIsMean ==
  \A k \in 1..Len(asked) :
    LET w == Asks(asked[k].q)
    IN (w.kind = "average" /\ Selected(w) # <<>>) =>
         Reported(asked[k].res.text)
           = ToString(Round(SumSeq(Selected(w), w.metric), Len(Selected(w))))

YearSum(y, metric) == SumSeq(SelectSeq(rows, LAMBDA r : r.period = y), metric)

\* C17: for a growth question naming y1 then y2 the reported percentage is
\* round((v2 - v1) / v1 * 100) for the metric's sums v1, v2 over the rows of
\* y1 and of y2, and 0 when v1 is 0 (a year absent from the table included)
C17_GrowthPercentage ==
  \A k \in 1..Len(asked) :
    LET w == Asks(asked[k].q)
        v1 == YearSum(w.y1, w.metric)
        v2 == YearSum(w.y2, w.metric)
    IN w.kind = "growth" =>
         /\ ~asked[k].res.threw
         /\ asked[k].res.text[5] = w.y1 /\ asked[k].res.text[9] = w.y2
         /\ IF v1 = 0 THEN asked[k].res.text[3] = "0"
            ELSE \E p \in -100..1000 :       \* p - 1/2 <= (v2 - v1) / v1 * 100 < p + 1/2
                   /\ asked[k].res.text[3] = ToString(p)
                   /\ (2 * p - 1) * v1 <= 200 * (v2 - v1)
                   /\ 200 * (v2 - v1) < (2 * p + 1) * v1

\* growth was asked from a year whose rows sum to 0, from a year the table
\* does not hold, and between two years of which the later is named first
C17_Witness ==
  /\ \E k \in 1..Len(asked) :
       /\ Asks(asked[k].q).kind = "growth"
       /\ \E i \in 1..Len(rows) : rows[i].period = Asks(asked[k].q).y1
       /\ YearSum(Asks(asked[k].q).y1, Asks(asked[k].q).metric) = 0
       /\ YearSum(Asks(asked[k].q).y2, Asks(asked[k].q).metric) > 0
  /\ \E k \in 1..Len(asked) :
       /\ Asks(asked[k].q).kind = "growth"
       /\ \A i \in 1..Len(rows) : rows[i].period # Asks(asked[k].q).y1
  /\ \E k \in 1..Len(asked) :
       /\ asked[k].q = <<"change", " ", "in", " ", "units", " ", "2025", " ", "2024">>
       /\ asked[k].res.text[3] = "-75"

\* C18: for every non-empty row list the 'Best Year' card is the period of
\* the earliest row whose revenue is maximal among all rows, and the 'Total
\* Revenue' card is the sum of all rows' revenue
C18_BestYearAndTotal ==
  (cards # NoCards /\ rows # <<>>) =>
    /\ \E i \in 1..Len(rows) :
         /\ cards.bestYear = rows[i].period
         /\ \A k \in 1..Len(rows) : rows[k].revenue <= rows[i].revenue
         /\ \A k \in 1..(i - 1) : rows[k].revenue # rows[i].revenue
    /\ \E hi \in {SumSeq(rows, "revenue") \div 1000}, lo \in 0..999 :
         /\ hi * 1000 + lo = SumSeq(rows, "revenue")
         /\ cards.totalRev = IF hi = 0 THEN <<ToString(lo)>>
                             ELSE <<ToString(hi), ",", D3(lo)>>

\* the cards are rendered for a table in which two rows of different periods
\* share the highest revenue
C18_Witness ==
  /\ cards # NoCards
  /\ \E i, j \in 1..Len(rows) :
       /\ i < j /\ rows[i].period # rows[j].period /\ rows[i].revenue = rows[j].revenue
       /\ \A k \in 1..Len(rows) : rows[k].revenue <= rows[i].revenue

-----------------------------------------------------------------------------
(* Claims about the data table, the import and the exports (SpecGrid) *)

\* C13: after any sequence of cell updates, row additions, row removals and
\* CSV imports computeInsights returns without error for the rows, so no
\* render of the page throws
C13_InsightsCompute == ~computeInsightsThrows(rows) /\ mounted

NumberColumns == {"revenue", "units", "costPrice", "staffExp"}

\* every number of the rows rs is a finite one
NumbersFinite(rs) ==
  \A i \in 1..Len(rs), f \in NumberColumns : rs[i][f] \notin {NaN, Infinity, -Infinity}

\* cell inputs that hold no number, or a number beyond the finite range
JunkInputs == { <<"N", "a", "N">>, <<"-">>, Overlong }

\* C14: whatever cell is updated, row added or removed, or file imported, every
\* revenue, units, costPrice and staffExp of the rows is a finite number
\* afterwards, and an update with an unparsable or non-finite input stores 0
C14_NumbersFinite ==
  [][ /\ NumbersFinite(rows')
      /\ \A key \in NumberColumns, val \in JunkInputs :
           Update(Len(rows), key, val) => rows'[Len(rows)][key] = 0 ]_vars

\* a file with an empty units cell and an overlong staff_exp cell was imported,
\* and the revenue of its row was then overwritten with an input that is no number
C14_Witness ==
  /\ Len(rows) = 1 /\ edits = 2
  /\ rows[1].period = "2030" /\ rows[1].costPrice = 120
  /\ rows[1].units = 0 /\ rows[1].staffExp = 0
  /\ rows[1].revenue = 0

\* a name that ends in .csv, in any letter case
DotCsv(name) ==
  Len(name) >= 2 /\ name[Len(name) - 1] = "." /\ LowerTok(name[Len(name)]) = "csv"

\* a name whose last segment between dots is csv, in any letter case
LastSegmentCsv(name) == LowerTok(name[Len(name)]) = "csv"

\* the steps of the gate when the files imported are those that satisfy IsCsv:
\* gated never returns to false, it becomes true only as such a file is
\* imported and always when one is, and picking any other file starts no read
\* and changes neither rows nor gated
GateSteps(IsCsv(_)) ==
  /\ gated => gated'
  /\ (gated' /\ ~gated) =>
       \E k \in 1..Len(awaits) :
         awaits[k].kind = "read" /\ IsCsv(awaits[k].arg.name) /\ FileSettles(k, TRUE)
  /\ \A k \in 1..Len(awaits) :
       (awaits[k].kind = "read" /\ IsCsv(awaits[k].arg.name) /\ mounted /\ FileSettles(k, TRUE))
         => gated' /\ rows' = parseCSV(awaits[k].arg.lines)
  /\ \A f \in Files :
       (~IsCsv(f.name) /\ ImportFile(f)) => UNCHANGED <<rows, gated, awaits>>

\* C19 as stated: gated is false initially, becomes true exactly when a .csv
\* file is imported (a file with any other extension changes neither rows nor
\* gated), and never returns to false
C19_GatedExactlyOnDotCsv == ~gated /\ [][GateSteps(DotCsv)]_vars

\* C19 amended: gated is false initially, becomes true exactly when a file
\* whose name's last dot-separated segment is csv in any letter case (a .csv
\* file, or a file named just csv) has been read and imported, and never
\* returns to false; picking any other file changes neither rows nor gated
C19_GatedExactlyOnCsvSegment == ~gated /\ [][GateSteps(LastSegmentCsv)]_vars

\* the file named csv was imported, which set the gate, with one more edit or
\* import made before or after it
C19_Witness ==
  /\ gated /\ edits = MaxEdits
  /\ \E i \in 1..Len(rows) : rows[i].period = "2031" /\ rows[i].revenue = -7
  /\ \A k \in 1..Len(awaits) : awaits[k].kind # "read"

\* what the export handlers did in a step, as the entries added to the log
Exported(e) == exported' = Append(exported, e)

\* C20 as stated: while gated is true no export happens: an export handler
\* only returns, no chart is converted and no download is triggered
C20_NoExportWhileGated ==
  [][gated => (exported' = exported \/ Exported("return"))]_vars

\* C20 amended: while gated is true the slide download and the chart download
\* return without converting the chart or triggering a download, so no export
\* starts; the only download that can happen is that of a conversion started
\* before gated became true
C20_NoExportStartsWhileGated ==
  [][gated =>
       /\ \/ exported' = exported
          \/ Exported("return")
          \/ \E k \in 1..Len(awaits) :
               awaits[k].kind = "png" /\ Exported(awaits[k].arg) /\ awaits' = remove(awaits, k)
       /\ Len(SelectSeq(awaits', LAMBDA a : a.kind = "png"))
            <= Len(SelectSeq(awaits, LAMBDA a : a.kind = "png"))]_vars

\* with the gate closed an export button was pressed and returned, after a
\* download started before the import
C20_Witness ==
  /\ gated
  /\ Len(exported) >= 2
  /\ exported[1] = "svgToPng" /\ exported[2] = "return"

-----------------------------------------------------------------------------
(* Claims about overlapping and blank sends (SpecUI) *)

\* C25: the transcript stays paired under every interleaving of sends and
\* response arrivals: the AI message of a question is the message right after
\* the question's user message, and every AI message follows a user message.
C25_TranscriptPaired ==
  /\ \A k \in 1..Len(sends) : sends[k].reply # 0 => sends[k].reply = sends[k].at + 1
  /\ \A i \in 2..Len(messages) :
       messages[i].role = "ai" => messages[i - 1].role = "user"

RECURSIVE MemoryAfter(_)
\* answerLocal applied to the first k questions in send order, each from the
\* memory the one before left
MemoryAfter(k) ==
  IF k = 0 THEN EmptyMemory
  ELSE LET res == answerLocal(sends[k].q, rows, DefaultContext, MemoryAfter(k - 1))
       IN IF res.threw THEN MemoryAfter(k - 1) ELSE res.mem

\* C26: in the Rev 17 Askura with AI enabled (no row removed meanwhile), once
\* every send has completed the memory is what answerLocal leaves when it is
\* applied to the questions in send order.
C26_MemoryInSendOrder ==
  ( /\ rev = "rev17" /\ rows = defaultRows /\ sends # <<>>
    /\ \A k \in 1..Len(sends) : sends[k].path = "openai" /\ sends[k].pc = "done" ) =>
    memory = MemoryAfter(Len(sends))

\* the input is empty or holds blanks only
BlankInput == \A i \in 1..Len(input) : input[i] \in WS

\* a step of send(): it returned at its blank test or went on to answer
SendStep == blanks' # blanks \/ Len(sends') > Len(sends)

\* C27: a send with an empty or whitespace-only input changes neither the
\* transcript, the input field, the memory nor the rows, and starts no request
\* (Rev 17, Rev 18, Rev 19, Rev 20).
C27_BlankSendIsNoOp ==
  [][(BlankInput /\ SendStep) =>
       UNCHANGED <<messages, input, memory, rows, sends, invs>>]_vars

\* Rev 18: a question was answered, then blanks were typed and sent
C27_Witness ==
  /\ rev = "rev18" /\ blanks = 1 /\ input = <<" ">>
  /\ Len(sends) = 1 /\ Len(messages) = 2 /\ memory.kind = "marginMax"

-----------------------------------------------------------------------------
(* Claims about the charts and the hero carousel (SpecChart) *)

\* C21: in the modes other than pie every plotted point of both series lies in
\* the plot rectangle (90 <= x <= 770, 28 <= y <= 354) and every bar has a
\* height of 0 or more, whatever the rows, the metrics and the axis option.
C21_PlottedInsidePlot ==
  /\ \A p \in drawn.points :
       /\ 90 * p.x.d <= p.x.n /\ p.x.n <= (860 - 90) * p.x.d
       /\ 28 * p.y.d <= p.y.n /\ p.y.n <= (440 - 86) * p.y.d
  /\ \A b \in drawn.bars : b.h.n >= 0

RECURSIVE GCD(_, _)
GCD(a, b) == IF b = 0 THEN a ELSE GCD(b, a % b)

\* a quotient in lowest terms, its denominator positive
Reduced(q) ==
  LET g == GCD(Abs(q.n), Abs(q.d))
  IN IF q.d < 0 THEN Frac(-(q.n \div g), (-q.d) \div g) ELSE Frac(q.n \div g, q.d \div g)

\* the slices start at -90 degrees, each starts where the one before ends, and
\* each spans its value's share of 360 degrees
FillsTheCircle(arcs) ==
  LET sum == SumInts([k \in 1..Len(arcs) |-> arcs[k].value])
  IN /\ arcs # <<>> => Reduced(arcs[1].start) = Frac(-90, 1)
     /\ \A k \in 1..(Len(arcs) - 1) : arcs[k + 1].start = arcs[k].end
     /\ \A k \in 1..Len(arcs) :
          /\ arcs[k].start.d = arcs[k].end.d
          /\ Reduced(Frac(arcs[k].end.n - arcs[k].start.n, arcs[k].start.d))
               = Reduced(Frac(360 * arcs[k].value, sum))

SliceSum(arcs) == SumInts([k \in 1..Len(arcs) |-> arcs[k].value])

\* C22, the pie mode of PremiumChart: when the total is not 0 the slice angles
\* are proportional to the values, add up to 360 degrees and are laid end to
\* end from -90 degrees.
C22_PieFillsTheCircle ==
  (controls.mode = "pie" /\ SliceSum(drawn.pie) # 0) => FillsTheCircle(drawn.pie)

\* C22: the same in the pie mode and, when the sum of its data is positive, in
\* the donut chart.
C22_AnglesFillTheCircle ==
  /\ C22_PieFillsTheCircle
  /\ SliceSum(drawn.donut) > 0 => FillsTheCircle(drawn.donut)

Finite(q) == q.d # 0

\* C23: the latest margin percentage of the insights, the coordinates of the
\* hero mini chart and the scale values of the line chart are finite numbers,
\* also for rows whose revenue or units are 0.
C23_FiguresFinite ==
  /\ Finite(drawn.margin)
  /\ \A p \in drawn.mini : Finite(p.x) /\ Finite(p.y)
  /\ \A v \in drawn.line : Finite(v)

\* the start point and the end point of the arc are the same point of the circle
SamePoint(arc) == (arc.end.n - arc.start.n) % (360 * arc.start.d) = 0

\* C24: in the pie mode and in the donut chart every slice with a positive
\* value is an arc whose start point and end point differ.
C24_SlicesAreArcs ==
  \A arcs \in {drawn.pie, drawn.donut} :
    \A k \in 1..Len(arcs) : arcs[k].value > 0 => ~SamePoint(arcs[k])

\* C28: the carousel index is always one of 0, 1, 2; the timer and the next
\* arrow go one slide on, from 2 to 0; the previous arrow goes one slide back,
\* from 0 to 2.
C28_SlideExists ==
  /\ [](slide.i \in 0..2)
  /\ [][slide' # slide =>
          /\ slide'.by \in {"next", "tick"} =>
               slide'.i = (IF slide.i = 2 THEN 0 ELSE slide.i + 1)
          /\ slide'.by = "previous" =>
               slide'.i = (IF slide.i = 0 THEN 2 ELSE slide.i - 1)]_vars

\* the previous arrow has wrapped from the first slide to the last
C28_Witness == slide = [i |-> 2, by |-> "previous"]

\* C29: an Escape key press calls onClose once, the onClose of the last
\* render, when TrialModal is mounted and open, and not at all when it is
\* closed or unmounted; any other key calls nothing.
C29_EscapeClosesOnce ==
  [][modal'.keys = modal.keys + 1 =>
       modal'.closed = modal.closed \o
         (IF modal'.key = "Escape" /\ modal.mounted /\ modal.open
            THEN <<modal.onClose>> ELSE <<>>)]_vars

\* the modal was rendered open, closed and open again with another onClose,
\* and Escape then called that onClose
C29_Witness ==
  /\ modal.mounted /\ modal.open /\ modal.renders = 3
  /\ modal.key = "Escape" /\ modal.closed = <<"g">>

====
